---- MODULE Spec2Model ----
(***************************************************************************)
(* Source knowledge graph engine of aurora: the static extractor and graph *)
(* builder (src/ingest.py), the mention resolver and subgraph selector and *)
(* the conversation session manager (src/chat.py).                         *)
(*                                                                         *)
(* Text (identifiers, file names, queries, responses) is a sequence of     *)
(* one-character strings, so that Python's substring test and string       *)
(* concatenation are computed and not assumed.                             *)
(***************************************************************************)
EXTENDS Integers, Sequences, FiniteSets, Bags, TLC

VARIABLES
    dir,                    \* the directory snapshot, in os.walk order
    graph_file,             \* the document at graph_file_path, or Absent
    db,                     \* the rows of table chat_history, in rowid order
    now,                    \* the wall clock read by datetime.now()
    history,                \* the chatbot transcript (gr.Chatbot value)
    chat_session,           \* gr.State chat_session_state
    conversation_id_state,  \* gr.State conversation_id_state
    last,                   \* the last handler call: its inputs and what it returned
    requests,               \* the chat_wrapper call each event listener is running
    ingest                  \* the ingest_files generator: its position and what it yielded

vars == <<dir, graph_file, db, now, history, chat_session, conversation_id_state, last,
          requests, ingest>>

-----------------------------------------------------------------------------
(* Text *)

\* Python's None and the empty string: both are falsy, which is all the code tests.
None == <<>>

\* Python: needle in text (str.__contains__).
Contains(text, needle) ==
    \E i \in 0..(Len(text) - Len(needle)) :
        \A k \in 1..Len(needle) : text[i + k] = needle[k]

\* Python: text.startswith(prefix)
StartsWith(text, prefix) ==
    /\ Len(prefix) <= Len(text)
    /\ \A k \in 1..Len(prefix) : text[k] = prefix[k]

\* Python: text.endswith(suffix)
EndsWith(text, suffix) ==
    /\ Len(suffix) <= Len(text)
    /\ \A k \in 1..Len(suffix) : text[Len(text) - Len(suffix) + k] = suffix[k]

\* The elements of a sequence.
Range(s) == {s[i] : i \in 1..Len(s)}

-----------------------------------------------------------------------------
(* The syntax tree of a file, as ast.parse returns it.  A tree node is      *)
(* [kind, name, names, body]: body holds the child nodes in the order       *)
(* ast.iter_child_nodes gives them.                                        *)
(*   FunctionDef, AsyncFunctionDef, ClassDef : name is the declared name   *)
(*   Import      : names are the alias names                               *)
(*   ImportFrom  : name is node.module (None for "from . import x")        *)
(*   Call        : name is node.func.id when node.func is an ast.Name, and *)
(*                 None for any other callee (attribute, subscript, ...)   *)

Id_f   == <<"f">>
Id_g   == <<"g">>
Id_C   == <<"C">>
Id_m   == <<"m">>
Id_apy == <<"a", ".", "p", "y">>
Id_bpy == <<"b", ".", "p", "y">>
Id_hidden == <<".", "h", ".", "p", "y">>
Id_txt == <<"n", ".", "t", "x", "t">>
Id_skip == <<"s", ".", "p", "y">>
Id_pkg == <<"p", "k", "g">>
Id_venv == <<"v", "e", "n", "v">>
DotPy  == <<".", "p", "y">>
Dot    == <<".">>

AstNode(kind, name, names) == [kind |-> kind, name |-> name, names |-> names, body |-> <<>>]

DefKinds == {"FunctionDef", "AsyncFunctionDef", "ClassDef"}

\* The statements and expressions a generated file is made of.
Labels ==
    {AstNode("FunctionDef", Id_f, <<>>), AstNode("ClassDef", Id_C, <<>>),
     AstNode("AsyncFunctionDef", Id_g, <<>>), AstNode("Import", None, <<Id_m, Id_f>>),
     AstNode("ImportFrom", Id_m, <<>>), AstNode("ImportFrom", None, <<>>),
     AstNode("Call", Id_f, <<>>), AstNode("Call", None, <<>>)}

\* A child of a Call is an expression: here, another Call.
MayHold(parent, child) ==
    \/ parent.kind \in DefKinds
    \/ parent.kind = "Call" /\ child.kind = "Call"

-----------------------------------------------------------------------------
(* class CodeAnalyzer(ast.NodeVisitor).  The analyzer object is the record *)
(* [file_name, nodes, edges, current_scope].                               *)

CodeAnalyzer(file_name) ==
    [file_name |-> file_name, nodes |-> <<>>, edges |-> <<>>, current_scope |-> file_name]

GraphNode(id, type, file) == [id |-> id, type |-> type, file |-> file]
GraphEdge(source, target, type) == [source |-> source, target |-> target, type |-> type]

RECURSIVE visit(_, _), generic_visit(_, _), visit_children(_, _, _), import_edges(_, _, _)

\* The source of an imports edge.
ImportSource_scope(an) == an.current_scope
ImportSource(an) == an.file_name

\* for alias in node.names: self.edges.append({source: self.file_name, ...})
import_edges(an, names, i) ==
    IF i > Len(names) THEN an
    ELSE import_edges(
            [an EXCEPT !.edges = Append(@, GraphEdge(ImportSource(an), names[i], "imports"))],
            names, i + 1)

\* ast.NodeVisitor.generic_visit: visit every child node, in order.
visit_children(an, body, i) ==
    IF i > Len(body) THEN an ELSE visit_children(visit(an, body[i]), body, i + 1)

generic_visit(an, node) == visit_children(an, node.body, 1)

visit_FunctionDef(an, node) ==
    LET declared == [an EXCEPT !.nodes = Append(@, GraphNode(node.name, "function", an.file_name))]
        parent_scope == declared.current_scope
        inside == generic_visit([declared EXCEPT !.current_scope = node.name], node)
    IN  [inside EXCEPT !.current_scope = parent_scope]

visit_ClassDef(an, node) ==
    LET declared == [an EXCEPT !.nodes = Append(@, GraphNode(node.name, "class", an.file_name))]
        parent_scope == declared.current_scope
        inside == generic_visit([declared EXCEPT !.current_scope = node.name], node)
    IN  [inside EXCEPT !.current_scope = parent_scope]

visit_Import(an, node) ==
    generic_visit(import_edges(an, node.names, 1), node)

visit_ImportFrom(an, node) ==
    generic_visit(
        IF node.name # None
        THEN [an EXCEPT !.edges = Append(@, GraphEdge(ImportSource(an), node.name, "imports"))]
        ELSE an,
        node)

visit_Call_shallow(an, node) ==
    IF node.name # None
    THEN [an EXCEPT !.edges = Append(@, GraphEdge(an.current_scope, node.name, "calls"))]
    ELSE an
visit_Call_declares(an, node) ==
    generic_visit(
        IF node.name # None
        THEN [an EXCEPT !.edges = Append(@, GraphEdge(an.current_scope, node.name, "calls")),
                        !.nodes = Append(@, GraphNode(node.name, "function", an.file_name))]
        ELSE an,
        node)
visit_Call(an, node) ==
    generic_visit(
        IF node.name # None
        THEN [an EXCEPT !.edges = Append(@, GraphEdge(an.current_scope, node.name, "calls"))]
        ELSE an,
        node)

\* ast.NodeVisitor.visit: dispatch on the class name of the node; a class
\* without a visit_ method (AsyncFunctionDef among them) gets generic_visit.
visit(an, node) ==
    CASE node.kind = "FunctionDef" -> visit_FunctionDef(an, node)
      [] node.kind = "ClassDef"    -> visit_ClassDef(an, node)
      [] node.kind = "Import"      -> visit_Import(an, node)
      [] node.kind = "ImportFrom"  -> visit_ImportFrom(an, node)
      [] node.kind = "Call"        -> visit_Call(an, node)
      [] OTHER                     -> generic_visit(an, node)

\* analyzer = CodeAnalyzer(file_name); analyzer.visit(tree), tree an ast.Module
Analyze(file_name, tree) == visit_children(CodeAnalyzer(file_name), tree, 1)

-----------------------------------------------------------------------------
(* The directory snapshot.  A file is [dirs, name, kind, tree]: dirs are    *)
(* the directory names from the root down to the file, kind says what      *)
(* reading and parsing it gives.                                           *)
(*   "unreadable"   : open() raises                                        *)
(*   "blank"        : content.strip() is empty                             *)
(*   "syntax_error" : ast.parse raises                                     *)
(*   "ok"           : ast.parse returns tree                               *)

MaxFiles == 2
MaxNodes == 3
MaxStatements == 2

FileKinds == {"unreadable", "blank", "syntax_error", "ok"}

\* config["ingestion"]["ignored_directories"], config["ingestion"]["ignored_files"]
ignored_dirs  == {Id_venv}
ignored_files == {Id_skip}

File(dirs, name, kind, tree) == [dirs |-> dirs, name |-> name, kind |-> kind, tree |-> tree]

\* The paths of the Python files a working tree may hold.
FilePaths ==
    {[dirs |-> <<>>, name |-> Id_apy], [dirs |-> <<>>, name |-> Id_bpy],
     [dirs |-> <<Id_pkg>>, name |-> Id_apy]}

\* Files every working tree holds and no scan returns: a dotfile, a text
\* file, a file with an ignored name and a module in an ignored directory.
\* Each declares function g.
Fixtures ==
    LET decl == <<AstNode("FunctionDef", Id_g, <<>>)>>
    IN  <<File(<<>>, Id_hidden, "ok", decl), File(<<>>, Id_txt, "ok", decl),
          File(<<>>, Id_skip, "ok", decl), File(<<Id_venv>>, Id_bpy, "ok", decl)>>

\* The scan of build_knowledge_graph: os.walk with ignored directories pruned,
\* dotfiles and ignored names skipped, .py files kept.
IsPythonFile(f) ==
    /\ \A i \in 1..Len(f.dirs) : f.dirs[i] \notin ignored_dirs
    /\ ~StartsWith(f.name, Dot)
    /\ f.name \notin ignored_files
    /\ EndsWith(f.name, DotPy)

python_files(d) == SelectSeq(d, IsPythonFile)

\* The number of tree nodes of a sequence of trees.
RECURSIVE TreeSize(_)
TreeSize(body) ==
    IF body = <<>> THEN 0
    ELSE 1 + TreeSize(Head(body).body) + TreeSize(Tail(body))

RECURSIVE DirSize(_)
DirSize(d) == IF d = <<>> THEN 0 ELSE TreeSize(Head(d).tree) + DirSize(Tail(d))

\* The depth of the last branch of a sequence of trees.
RECURSIVE SpineDepth(_)
SpineDepth(body) ==
    IF body = <<>> THEN 0 ELSE 1 + SpineDepth(body[Len(body)].body)

\* body with node added as the last child, depth levels down its last branch.
RECURSIVE AppendAt(_, _, _)
AppendAt(body, depth, node) ==
    IF depth = 0 THEN Append(body, node)
    ELSE [body EXCEPT ![Len(body)].body = AppendAt(@, depth - 1, node)]

\* The node that would hold a node added at depth (depth >= 1).
RECURSIVE HolderAt(_, _)
HolderAt(body, depth) ==
    IF depth = 1 THEN body[Len(body)] ELSE HolderAt(body[Len(body)].body, depth - 1)

-----------------------------------------------------------------------------
(* The graph document at config["knowledge_graph"]["graph_file_path"].     *)

Absent  == [exists |-> FALSE, intact |-> FALSE, nodes |-> <<>>, edges |-> <<>>]
\* What open(path, 'w') leaves when json.dump does not complete.
Partial == [exists |-> TRUE, intact |-> FALSE, nodes |-> <<>>, edges |-> <<>>]
GraphDoc(kg) == [exists |-> TRUE, intact |-> TRUE, nodes |-> kg.nodes, edges |-> kg.edges]

\* What writing the document does: it succeeds, open() raises, or json.dump
\* raises after open() has truncated the file.
WriteOutcomes == {"ok", "open_fails", "dump_fails"}

Msg(msg, file) == [msg |-> msg, file |-> file]

-----------------------------------------------------------------------------
(* build_knowledge_graph.  The loop state is                               *)
(* [nodes, edges, existing_node_ids, out]: knowledge_graph, the id set and *)
(* the messages yielded so far.                                            *)

\* knowledge_graph = {"nodes": [], "edges": []}: the build starts empty,
\* whatever document is on disk.
InitialGraph_merge(doc) == [nodes |-> doc.nodes, edges |-> doc.edges]
InitialGraph(doc) == [nodes |-> <<>>, edges |-> <<>>]

\* The test before a node is appended: its id is not in existing_node_ids.
IsNew_always(id, existing_node_ids) == TRUE
IsNew(id, existing_node_ids) == id \notin existing_node_ids

\* if id not in existing_node_ids: nodes.append(node); existing_node_ids.add(id)
add_node_lastwins(st, node) ==
    IF IsNew(node.id, st.existing_node_ids)
    THEN [st EXCEPT !.nodes = Append(@, node),
                    !.existing_node_ids = @ \cup {node.id}]
    ELSE [st EXCEPT !.nodes = [k \in 1..Len(@) |-> IF @[k].id = node.id THEN node ELSE @[k]]]
add_node(st, node) ==
    IF IsNew(node.id, st.existing_node_ids)
    THEN [st EXCEPT !.nodes = Append(@, node),
                    !.existing_node_ids = @ \cup {node.id}]
    ELSE st

\* for node in analyzer.nodes: ...
RECURSIVE merge_nodes(_, _, _)
merge_nodes(st, nodes, i) ==
    IF i > Len(nodes) THEN st ELSE merge_nodes(add_node(st, nodes[i]), nodes, i + 1)

\* knowledge_graph["edges"].extend(analyzer.edges)
RECURSIVE extend_edges_dedup(_, _)
extend_edges_dedup(edges, new) ==
    IF new = <<>> THEN edges
    ELSE extend_edges_dedup(
            IF \E k \in 1..Len(edges) : edges[k] = Head(new) THEN edges
            ELSE Append(edges, Head(new)),
            Tail(new))
extend_edges(edges, new) == edges \o new

\* if not content.strip(): the file is skipped before its file node is added.
skip_empty_filenode(announced, with_file, f) ==
    [with_file EXCEPT !.out = Append(@, Msg("skipping_empty", f.name))]
skip_empty(announced, with_file, f) ==
    [announced EXCEPT !.out = Append(@, Msg("skipping_empty", f.name))]

\* The body of the loop over python_files, for one file.
analyze_file(st, f) ==
    LET announced == [st EXCEPT !.out = Append(@, Msg("analyzing", f.name))]
        with_file == add_node(announced, GraphNode(f.name, "file", f.name))
        analyzer  == Analyze(f.name, f.tree)
        merged    == merge_nodes(with_file, analyzer.nodes, 1)
    IN  CASE f.kind = "unreadable" ->
                [announced EXCEPT !.out = Append(@, Msg("error_analyzing", f.name))]
          [] f.kind = "blank" ->
                skip_empty(announced, with_file, f)
          [] f.kind = "syntax_error" ->
                [with_file EXCEPT !.out = Append(@, Msg("error_analyzing", f.name))]
          [] OTHER ->
                [merged EXCEPT !.edges = extend_edges(@, analyzer.edges)]

RECURSIVE analyze_files(_, _, _)
analyze_files(st, files, i) ==
    IF i > Len(files) THEN st ELSE analyze_files(analyze_file(st, files[i]), files, i + 1)

\* The knowledge graph and the messages of a build of directory d, up to the write.
BuildGraph(d, doc) ==
    LET files == python_files(d)
        kg0   == InitialGraph(doc)
    IN  analyze_files(
            [nodes |-> kg0.nodes, edges |-> kg0.edges,
             existing_node_ids |-> {},
             out |-> <<Msg("scanning", None), Msg("found", None)>>],
            files, 1)

\* gr.State(None), and a live chat object with its accumulated context.
NoSession == [live |-> FALSE, history |-> <<>>]

NoCall == [op |-> "none", arg |-> <<>>, ret |-> <<>>]
Call(op, arg, ret) == [op |-> op, arg |-> arg, ret |-> ret]

\* The two event listeners wired to chat_wrapper: send_button.click and
\* chat_input.submit.
Listeners == {"click", "submit"}

\* A listener that runs no call.
IdleRequest ==
    [pc |-> "idle", message |-> <<>>, shown |-> <<>>, chat_session |-> NoSession,
     conversation_id_state |-> <<>>, new_conversation_started |-> FALSE,
     response_text |-> <<>>, timestamp |-> 0]
NoRequests == [l \in Listeners |-> IdleRequest]

\* ingest_files not called.
NoIngest ==
    [pc |-> "idle", all_files |-> <<>>, k |-> 0, operation |-> "none", inflight |-> {},
     stored |-> {}, out |-> <<>>]

\* The handler behind the "Build Knowledge Graph" button.  valid_path: the
\* path typed is the directory; otherwise os.path.isdir is false.  prior is
\* the document on disk when the handler starts.
build_knowledge_graph ==
    LET files == python_files(dir)
        st    == BuildGraph(dir, graph_file)
        kg    == [nodes |-> st.nodes, edges |-> st.edges]
    IN  /\ \/ \* not directory_path or not os.path.isdir(directory_path)
              /\ graph_file' = graph_file
              /\ last' = Call("build", [valid_path |-> FALSE, prior |-> graph_file],
                      [out |-> <<Msg("error_path", None)>>, saved |-> FALSE])
           \/ \* not python_files
              /\ files = <<>>
              /\ graph_file' = graph_file
              /\ last' = Call("build", [valid_path |-> TRUE, prior |-> graph_file],
                      [out |-> <<Msg("scanning", None), Msg("no_python_files", None)>>,
                       saved |-> FALSE])
           \/ /\ files # <<>>
              /\ \E write \in WriteOutcomes :
                    /\ graph_file' = CASE write = "ok" -> GraphDoc(kg)
                                        [] write = "open_fails" -> graph_file
                                        [] OTHER -> Partial
                    /\ last' = Call("build", [valid_path |-> TRUE, prior |-> graph_file],
                            [out |-> Append(st.out,
                                        IF write = "ok" THEN Msg("saved", None)
                                        ELSE Msg("error_saving", None)),
                             saved |-> (write = "ok")])
        /\ UNCHANGED <<dir, db, now, history, chat_session, conversation_id_state, requests, ingest>>

-----------------------------------------------------------------------------
(* The user's working tree: files are created and statements written       *)
(* before the graph is built.                                              *)

IsRoot(f) == f.dirs = <<>>
IsNested(f) == f.dirs # <<>>

\* A new file: listed after the files of the root when it is in the root,
\* and in a directory walked last otherwise.
CreateFile(path, kind) ==
    /\ last.op = "none"
    /\ Len(python_files(dir)) < MaxFiles
    /\ \A i \in 1..Len(dir) : [dirs |-> dir[i].dirs, name |-> dir[i].name] # path
    /\ dir' = IF path.dirs = <<>>
              THEN SelectSeq(dir, IsRoot) \o <<File(path.dirs, path.name, kind, <<>>)>>
                     \o SelectSeq(dir, IsNested)
              ELSE Append(dir, File(path.dirs, path.name, kind, <<>>))
    /\ UNCHANGED <<graph_file, db, now, history, chat_session, conversation_id_state, last, requests, ingest>>

\* Write one more statement (or call argument) at the end of file i, depth
\* levels down its last branch; the working tree holds at most max nodes.
WriteStatement(i, depth, node, max) ==
    /\ last.op = "none"
    /\ i \in 1..Len(dir)
    /\ LET f == dir[i] IN
        /\ f.kind = "ok"
        /\ IsPythonFile(f)
        /\ DirSize(python_files(dir)) < max
        /\ depth <= SpineDepth(f.tree)
        /\ depth > 0 => MayHold(HolderAt(f.tree, depth), node)
        /\ dir' = [dir EXCEPT ![i].tree = AppendAt(@, depth, node)]
    /\ UNCHANGED <<graph_file, db, now, history, chat_session, conversation_id_state, last, requests, ingest>>

\* The statements written at the top level of the files of a multi-file tree.
BuildLabels ==
    {AstNode("FunctionDef", Id_f, <<>>), AstNode("ClassDef", Id_f, <<>>),
     AstNode("Call", Id_f, <<>>)}

InitBuild ==
    /\ dir = Fixtures
    /\ graph_file = Absent
    /\ db = <<>>
    /\ now = 0
    /\ history = <<>>
    /\ chat_session = NoSession
    /\ conversation_id_state = None
    /\ last = NoCall
    /\ requests = NoRequests
    /\ ingest = NoIngest

NextBuild ==
    \/ \E path \in FilePaths, kind \in FileKinds : CreateFile(path, kind)
    \/ \E i \in 1..(MaxFiles + Len(Fixtures)), node \in BuildLabels :
            WriteStatement(i, 0, node, MaxStatements)
    \/ build_knowledge_graph

\* Many files, statements at the top level.
SpecBuild == InitBuild /\ [][NextBuild]_vars

InitExtract ==
    /\ dir = <<File(<<>>, Id_apy, "ok", <<>>)>>
    /\ graph_file = Absent
    /\ db = <<>>
    /\ now = 0
    /\ history = <<>>
    /\ chat_session = NoSession
    /\ conversation_id_state = None
    /\ last = NoCall
    /\ requests = NoRequests
    /\ ingest = NoIngest

NextExtract ==
    \/ \E depth \in 0..MaxNodes, node \in Labels : WriteStatement(1, depth, node, MaxNodes)
    \/ build_knowledge_graph

\* One file, nested statements.
SpecExtract == InitExtract /\ [][NextExtract]_vars

-----------------------------------------------------------------------------
(* The working tree changes between builds: files are removed or left      *)
(* with a syntax error, and the graph is built again.                      *)

\* a.py declares f and calls it; b.py declares class C and imports m.
RebuildDir ==
    Fixtures \o
    <<File(<<>>, Id_apy, "ok", <<AstNode("FunctionDef", Id_f, <<>>), AstNode("Call", Id_f, <<>>)>>),
      File(<<>>, Id_bpy, "ok", <<AstNode("ClassDef", Id_C, <<>>), AstNode("ImportFrom", Id_m, <<>>)>>)>>

\* The user deletes Python file i.
RemoveFile(i) ==
    /\ i \in 1..Len(dir)
    /\ IsPythonFile(dir[i])
    /\ dir' = SubSeq(dir, 1, i - 1) \o SubSeq(dir, i + 1, Len(dir))
    /\ UNCHANGED <<graph_file, db, now, history, chat_session, conversation_id_state, last, requests, ingest>>

\* The user leaves Python file i with a syntax error.
BreakFile(i) ==
    /\ i \in 1..Len(dir)
    /\ IsPythonFile(dir[i])
    /\ dir[i].kind = "ok"
    /\ dir' = [dir EXCEPT ![i].kind = "syntax_error"]
    /\ UNCHANGED <<graph_file, db, now, history, chat_session, conversation_id_state, last, requests, ingest>>

InitRebuild ==
    /\ dir = RebuildDir
    /\ graph_file = Absent
    /\ db = <<>>
    /\ now = 0
    /\ history = <<>>
    /\ chat_session = NoSession
    /\ conversation_id_state = None
    /\ last = NoCall
    /\ requests = NoRequests
    /\ ingest = NoIngest

NextRebuild ==
    \/ \E i \in 1..Len(RebuildDir) : RemoveFile(i)
    \/ \E i \in 1..Len(RebuildDir) : BreakFile(i)
    \/ build_knowledge_graph

SpecRebuild == InitRebuild /\ [][NextRebuild]_vars

-----------------------------------------------------------------------------
(* ingest_files: the files of the directory are uploaded to the file       *)
(* search store one after the other.  The generator is                     *)
(* [pc, all_files, k, operation, inflight, stored, out]: all_files is the  *)
(* scan, k the position of the loop in it, operation the state of the      *)
(* upload operation the loop waits for, inflight the positions of the      *)
(* files whose upload the service has accepted and not yet ended (neither  *)
(* reported done nor answered with an error), stored the positions of the  *)
(* files the store has indexed, out the messages yielded so far.           *)

\* The scan of ingest_files: os.walk with ignored directories pruned,
\* dotfiles and ignored names skipped; every other file is kept.
IsIngestFile_dotfiles(f) ==
    /\ \A i \in 1..Len(f.dirs) : f.dirs[i] \notin ignored_dirs
    /\ f.name \notin ignored_files
IsIngestFile(f) ==
    /\ \A i \in 1..Len(f.dirs) : f.dirs[i] \notin ignored_dirs
    /\ ~StartsWith(f.name, Dot)
    /\ f.name \notin ignored_files

all_files(d) == SelectSeq(d, IsIngestFile)

\* What the upload call and a poll of the operation give: an exception, an
\* operation that is not done, or one that is.
UploadOutcomes == {"raises", "pending", "done"}

\* except Exception: the error is yielded and the loop goes on with the next
\* file.
AfterFileError_abort(g) ==
    [g EXCEPT !.out = Append(@, Msg("error_indexing", g.all_files[g.k].name)),
              !.operation = "none",
              !.inflight = @ \ {g.k},
              !.pc = "done"]
\* The batch starts over at the first file.
AfterFileError_restart(g) ==
    [g EXCEPT !.out = SubSeq(@, 1, 2),
              !.operation = "none",
              !.inflight = {},
              !.stored = {},
              !.k = 1,
              !.pc = "loop"]
AfterFileError(g) ==
    [g EXCEPT !.out = Append(@, Msg("error_indexing", g.all_files[g.k].name)),
              !.operation = "none",
              !.inflight = @ \ {g.k},
              !.k = @ + 1,
              !.pc = "loop"]

\* The operation is done: the file is in the store, the loop goes on.
AfterFileIndexed(g) ==
    [g EXCEPT !.out = Append(@, Msg("indexed", g.all_files[g.k].name)),
              !.operation = "none",
              !.inflight = @ \ {g.k},
              !.stored = @ \cup {g.k},
              !.k = @ + 1,
              !.pc = "loop"]

\* The operation returned is not done: the loop polls it before it goes on.
AfterUploadAccepted_nowait(g) ==
    [g EXCEPT !.operation = "none", !.inflight = @ \cup {g.k}, !.k = @ + 1, !.pc = "loop"]
AfterUploadAccepted(g) ==
    [g EXCEPT !.operation = "pending", !.inflight = @ \cup {g.k}, !.pc = "polling"]

\* len(all_files) of the final message.
IngestedCount(g) == Len(g.all_files)

\* The handler behind the "Ingest" button is called: the path is checked and
\* the directory scanned.
ingest_files(valid_path) ==
    LET found == all_files(dir)
    IN  /\ ingest.pc = "idle"
        /\ ingest' =
            IF ~valid_path
            THEN [NoIngest EXCEPT !.pc = "done", !.out = <<Msg("error_path", None)>>]
            ELSE IF found = <<>>
            THEN [NoIngest EXCEPT !.pc = "done",
                                  !.out = <<Msg("scanning", None), Msg("no_files", None)>>]
            ELSE [NoIngest EXCEPT !.pc = "loop", !.all_files = found, !.k = 1,
                                  !.out = <<Msg("scanning", None), Msg("found", Len(found))>>]
        /\ UNCHANGED <<dir, graph_file, db, now, history, chat_session,
                       conversation_id_state, last, requests>>

\* The loop takes file k: upload_to_file_search_store raises, or returns an
\* operation.  A file that cannot be read cannot be uploaded.
upload_file(outcome) ==
    LET f == ingest.all_files[ingest.k]
        uploading == [ingest EXCEPT !.out = Append(@, Msg("uploading", f.name))]
        indexing  == [uploading EXCEPT !.out = Append(@, Msg("indexing", f.name))]
    IN  /\ ingest.pc = "loop"
        /\ ingest.k <= Len(ingest.all_files)
        /\ f.kind = "unreadable" => outcome = "raises"
        /\ ingest' = CASE outcome = "raises" -> AfterFileError(uploading)
                       [] outcome = "done"   -> AfterFileIndexed(indexing)
                       [] OTHER -> AfterUploadAccepted(indexing)
        /\ UNCHANGED <<dir, graph_file, db, now, history, chat_session,
                       conversation_id_state, last, requests>>

\* while not operation.done: time.sleep(4); operation = client.operations.get(operation)
poll_operation(outcome) ==
    /\ ingest.pc = "polling"
    /\ ingest' = CASE outcome = "raises" -> AfterFileError(ingest)
                   [] outcome = "done"   -> AfterFileIndexed(ingest)
                   [] OTHER -> ingest
    /\ UNCHANGED <<dir, graph_file, db, now, history, chat_session,
                   conversation_id_state, last, requests>>

\* The loop is over: the final message.
ingestion_complete ==
    /\ ingest.pc = "loop"
    /\ ingest.k > Len(ingest.all_files)
    /\ ingest' = [ingest EXCEPT !.pc = "done",
                                !.out = Append(@, Msg("complete", IngestedCount(ingest)))]
    /\ UNCHANGED <<dir, graph_file, db, now, history, chat_session,
                   conversation_id_state, last, requests>>

InitIngest ==
    /\ dir \in {<<>>, Fixtures}
    /\ graph_file = Absent
    /\ db = <<>>
    /\ now = 0
    /\ history = <<>>
    /\ chat_session = NoSession
    /\ conversation_id_state = None
    /\ last = NoCall
    /\ requests = NoRequests
    /\ ingest = NoIngest

NextIngest ==
    \/ \E path \in FilePaths, kind \in FileKinds :
            /\ ingest.pc = "idle"
            /\ CreateFile(path, kind)
    \/ \E valid_path \in BOOLEAN : ingest_files(valid_path)
    \/ \E outcome \in UploadOutcomes : upload_file(outcome)
    \/ \E outcome \in UploadOutcomes : poll_operation(outcome)
    \/ ingestion_complete
    \/ \* the graph is built once the files are ingested
       /\ ingest.pc = "done"
       /\ build_knowledge_graph

SpecIngest == InitIngest /\ [][NextIngest]_vars

\* The generator is run to its end by its consumer, and the service ends
\* every operation: a poll eventually reports done or raises.
IngestFairness ==
    /\ WF_vars(\E outcome \in UploadOutcomes : upload_file(outcome))
    /\ WF_vars(poll_operation("done") \/ poll_operation("raises"))
    /\ WF_vars(ingestion_complete)

SpecIngestFair == SpecIngest /\ IngestFairness

-----------------------------------------------------------------------------
(* Properties of the graph builder and the extractor.                      *)

\* The last handler call was a build that saved its graph: graph_file is
\* the graph built from dir.
BuildSaved == last.op = "build" /\ last.ret.saved

OkFiles(d) == SelectSeq(python_files(d), LAMBDA f : f.kind = "ok")

IsCallsEdge(e) == e.type = "calls"
IsImportsEdge(e) == e.type = "imports"

\* Some file of d holds a node of the given kind right under a node of
\* one of the given kinds.
RECURSIVE HasNested(_, _, _, _)
HasNested(body, inside, outer, kind) ==
    \E i \in 1..Len(body) :
        \/ inside /\ body[i].kind = kind
        \/ HasNested(body[i].body, body[i].kind \in outer, outer, kind)

\* C1: in every graph a build saves, no two nodes share an identifier.
C1_UniqueNodeIds ==
    BuildSaved =>
        \A i, j \in 1..Len(graph_file.nodes) :
            i # j => graph_file.nodes[i].id # graph_file.nodes[j].id

\* A saved graph built from two files with the same base name that both
\* declare f.
C1_Witness ==
    /\ BuildSaved
    /\ \E i, j \in 1..Len(OkFiles(dir)) :
            LET a == OkFiles(dir)[i]
                b == OkFiles(dir)[j]
            IN  /\ i # j /\ a.name = b.name
                /\ \E k \in 1..Len(a.tree) : a.tree[k].kind \in {"FunctionDef", "ClassDef"}
                /\ \E k \in 1..Len(b.tree) : b.tree[k].kind \in {"FunctionDef", "ClassDef"}
    /\ Len(graph_file.nodes) = 2

\* The calls edges of a sequence of statements, each with the name of the
\* innermost enclosing function or class definition as its source, scope
\* being the innermost definition around the statements.
RECURSIVE LexicalCalls(_, _)
LexicalCalls(body, scope) ==
    IF body = <<>> THEN <<>>
    ELSE LET node == Head(body)
             here == IF node.kind = "Call" /\ node.name # None
                     THEN <<GraphEdge(scope, node.name, "calls")>> ELSE <<>>
             below == LexicalCalls(node.body,
                         IF node.kind \in DefKinds THEN node.name ELSE scope)
         IN  here \o below \o LexicalCalls(Tail(body), scope)

RECURSIVE LexicalCallsOfFiles(_)
LexicalCallsOfFiles(files) ==
    IF files = <<>> THEN <<>>
    ELSE LexicalCalls(Head(files).tree, Head(files).name) \o LexicalCallsOfFiles(Tail(files))

\* C2: every calls edge has as source the name of the innermost function or
\* class definition that lexically encloses the call, or the file identifier
\* when no definition encloses it.
C2_CallSourceIsInnermostDefinition ==
    BuildSaved =>
        SelectSeq(graph_file.edges, IsCallsEdge) = LexicalCallsOfFiles(OkFiles(dir))

\* The same, for files that hold no async function definition.
RECURSIVE HasKind(_, _)
HasKind(body, kind) ==
    \E i \in 1..Len(body) : body[i].kind = kind \/ HasKind(body[i].body, kind)

C2_CallSourceWithoutAsync ==
    (BuildSaved /\ \A i \in 1..Len(dir) : ~HasKind(dir[i].tree, "AsyncFunctionDef")) =>
        SelectSeq(graph_file.edges, IsCallsEdge) = LexicalCallsOfFiles(OkFiles(dir))

\* The imports edges of a sequence of statements of file file_name, at any depth.
RECURSIVE FileImports(_, _)
FileImports(body, file_name) ==
    IF body = <<>> THEN <<>>
    ELSE LET node == Head(body)
             here == CASE node.kind = "Import" ->
                            [k \in 1..Len(node.names) |->
                                GraphEdge(file_name, node.names[k], "imports")]
                       [] node.kind = "ImportFrom" /\ node.name # None ->
                            <<GraphEdge(file_name, node.name, "imports")>>
                       [] OTHER -> <<>>
         IN  here \o FileImports(node.body, file_name) \o FileImports(Tail(body), file_name)

RECURSIVE FileImportsOfFiles(_)
FileImportsOfFiles(files) ==
    IF files = <<>> THEN <<>>
    ELSE FileImports(Head(files).tree, Head(files).name) \o FileImportsOfFiles(Tail(files))

\* C3: every imports edge has the file identifier as its source, whatever
\* the nesting depth of the import statement.
C3_ImportSourceIsFile ==
    BuildSaved =>
        SelectSeq(graph_file.edges, IsImportsEdge) = FileImportsOfFiles(OkFiles(dir))

\* A saved graph of a file with an import statement inside a function or class.
C3_Witness ==
    /\ BuildSaved
    /\ \E i \in 1..Len(OkFiles(dir)) :
            \/ HasNested(OkFiles(dir)[i].tree, FALSE, {"FunctionDef", "ClassDef"}, "Import")
            \/ HasNested(OkFiles(dir)[i].tree, FALSE, {"FunctionDef", "ClassDef"}, "ImportFrom")
    /\ \E k \in 1..Len(graph_file.edges) : graph_file.edges[k].type = "imports"

NodeSet(doc) == Range(doc.nodes)
EdgeBag(doc) ==
    [e \in Range(doc.edges) |-> Cardinality({k \in 1..Len(doc.edges) : doc.edges[k] = e})]

\* C4: a build that saves its graph over the graph an earlier build of the
\* same directory saved leaves the same node set and the same edge multiset.
C4_RebuildIdempotent ==
    (BuildSaved /\ last.arg.prior.intact) =>
        /\ NodeSet(graph_file) = NodeSet(last.arg.prior)
        /\ EdgeBag(graph_file) = EdgeBag(last.arg.prior)

\* A second saved build of a directory whose graph has nodes and edges.
C4_Witness ==
    /\ BuildSaved
    /\ last.arg.prior.intact
    /\ Len(graph_file.nodes) >= 2
    /\ Len(graph_file.edges) >= 2

-----------------------------------------------------------------------------
(* The conversation store: table chat_history.  A row is                   *)
(* [conversation_id, timestamp, query, response]; db holds the rows in     *)
(* rowid order.                                                            *)

Row(conversation_id, timestamp, query, response) ==
    [conversation_id |-> conversation_id, timestamp |-> timestamp,
     query |-> query, response |-> response]

\* ORDER BY timestamp ASC, rows of equal timestamp in rowid order.
RECURSIVE InsertByTimestamp(_, _)
InsertByTimestamp(sorted, row) ==
    IF sorted = <<>> THEN <<row>>
    ELSE IF sorted[Len(sorted)].timestamp <= row.timestamp THEN Append(sorted, row)
    ELSE Append(InsertByTimestamp(SubSeq(sorted, 1, Len(sorted) - 1), row), sorted[Len(sorted)])

OrderByTimestamp_desc(rows) == [k \in 1..Len(rows) |-> rows[Len(rows) - k + 1]]
RECURSIVE OrderByTimestamp(_)
OrderByTimestamp(rows) ==
    IF rows = <<>> THEN <<>>
    ELSE InsertByTimestamp(OrderByTimestamp(SubSeq(rows, 1, Len(rows) - 1)), rows[Len(rows)])

\* SELECT query, response ... WHERE conversation_id = ? ORDER BY timestamp ASC;
\* [] on sqlite3.Error.
load_conversation_from_db(rows, conversation_id, db_ok) ==
    IF ~db_ok THEN <<>>
    ELSE LET mine == OrderByTimestamp(
                        SelectSeq(rows, LAMBDA r : r.conversation_id = conversation_id))
         IN  [k \in 1..Len(mine) |-> <<mine[k].query, mine[k].response>>]

-----------------------------------------------------------------------------
(* generate_visualization                                                  *)

\* "".join(...): what stands between the joined pieces.
JoinSeparator_space == <<" ">>
JoinSeparator == <<>>

\* all_text = "".join([q + r for q, r in history])
RECURSIVE all_text(_)
all_text(turns) ==
    IF turns = <<>> THEN <<>>
    ELSE IF Len(turns) = 1 THEN turns[1][1] \o turns[1][2]
    ELSE turns[1][1] \o turns[1][2] \o JoinSeparator \o all_text(Tail(turns))

\* The test of the mention comprehension: node_id in all_text.
IsMentioned_reversed(node_id, text) == Contains(node_id, text)
IsMentioned(node_id, text) == Contains(text, node_id)

\* mentioned_nodes = {node_id for node_id in all_node_ids if node_id in all_text}
mentioned_nodes(kg, text) ==
    LET all_node_ids == {kg.nodes[k].id : k \in 1..Len(kg.nodes)}
    IN  {node_id \in all_node_ids : IsMentioned(node_id, text)}

\* The edge test of the expanded view, and of the focused view.
TouchesMentioned_source(edge, mentioned) == edge.source \in mentioned
TouchesMentioned_boundary(edge, mentioned) ==
    (edge.source \in mentioned) # (edge.target \in mentioned)
TouchesMentioned(edge, mentioned) == edge.source \in mentioned \/ edge.target \in mentioned
BetweenMentioned(edge, mentioned) == edge.source \in mentioned /\ edge.target \in mentioned

\* The loop of the expanded view over knowledge_graph['edges'].
RECURSIVE expand(_, _, _, _)
expand(sub, edges, i, mentioned) ==
    IF i > Len(edges) THEN sub
    ELSE expand(
            IF TouchesMentioned(edges[i], mentioned)
            THEN [nodes |-> sub.nodes \cup {edges[i].source, edges[i].target},
                  edges |-> Append(sub.edges, edges[i])]
            ELSE sub,
            edges, i + 1, mentioned)

\* The nodes the expanded view starts from.
ExpandedStart(mentioned) == mentioned

\* The nodes of the focused view, given its edges.
FocusedNodes_mentioned(mentioned, edges) == mentioned
FocusedNodes(mentioned, edges) ==
    UNION {{edges[k].source, edges[k].target} : k \in 1..Len(edges)}

\* Step 3: subgraph_nodes and subgraph_edges.
subgraph(kg, mentioned, show_neighbors) ==
    IF show_neighbors
    THEN expand([nodes |-> ExpandedStart(mentioned), edges |-> <<>>], kg.edges, 1, mentioned)
    ELSE LET edges == SelectSeq(kg.edges, LAMBDA e : BetweenMentioned(e, mentioned))
         IN  [nodes |-> FocusedNodes(mentioned, edges), edges |-> edges]

\* node_id.replace('.', '_').replace('-', '_')
safe_id(node_id) ==
    [k \in 1..Len(node_id) |-> IF node_id[k] \in {".", "-"} THEN "_" ELSE node_id[k]]

\* ord(c), for the characters of the model.
Ord(c) ==
    CASE c = " " -> 32 [] c = "-" -> 45 [] c = "." -> 46 [] c = "C" -> 67
      [] c = "_" -> 95 [] c = "a" -> 97 [] c = "b" -> 98 [] c = "c" -> 99
      [] c = "e" -> 101 [] c = "f" -> 102 [] c = "g" -> 103 [] c = "h" -> 104
      [] c = "k" -> 107 [] c = "m" -> 109 [] c = "n" -> 110 [] c = "p" -> 112
      [] c = "s" -> 115 [] c = "t" -> 116 [] c = "v" -> 118 [] c = "x" -> 120
      [] c = "y" -> 121 [] c = "z" -> 122

\* Python: a < b on str.
RECURSIVE StrLess(_, _)
StrLess(a, b) ==
    IF b = <<>> THEN FALSE
    ELSE IF a = <<>> THEN TRUE
    ELSE IF Head(a) = Head(b) THEN StrLess(Tail(a), Tail(b))
    ELSE Ord(Head(a)) < Ord(Head(b))

\* sorted(list(ids))
RECURSIVE sorted(_)
sorted(ids) ==
    IF ids = {} THEN <<>>
    ELSE LET least == CHOOSE a \in ids : \A b \in ids \ {a} : StrLess(a, b)
         IN  <<least>> \o sorted(ids \ {least})

\* The lines of one node: its declaration, and its style when mentioned.
node_lines(node_id, mentioned) ==
    IF node_id \in mentioned
    THEN <<[line |-> "node", id |-> safe_id(node_id), label |-> node_id, quoted |-> TRUE],
           [line |-> "style", id |-> safe_id(node_id), label |-> node_id, quoted |-> TRUE]>>
    ELSE <<[line |-> "node", id |-> safe_id(node_id), label |-> node_id, quoted |-> FALSE]>>

RECURSIVE all_node_lines(_, _)
all_node_lines(ids, mentioned) ==
    IF ids = <<>> THEN <<>>
    ELSE node_lines(Head(ids), mentioned) \o all_node_lines(Tail(ids), mentioned)

\* Step 4: the Mermaid text, line by line.
mermaid(sub, mentioned) ==
    all_node_lines(sorted(sub.nodes), mentioned)
    \o [k \in 1..Len(sub.edges) |->
            [line |-> "edge", id |-> safe_id(sub.edges[k].source),
             label |-> safe_id(sub.edges[k].target), quoted |-> FALSE,
             type |-> sub.edges[k].type]]

VizReturn(kind, text, mentioned, sub, lines) ==
    [kind |-> kind, text |-> text, mentioned_nodes |-> mentioned,
     subgraph_nodes |-> sub.nodes, subgraph_edges |-> sub.edges, lines |-> lines]

Placeholder_raises(text) == VizReturn("raises", text, {}, [nodes |-> {}, edges |-> <<>>], <<>>)
Placeholder(text) == VizReturn("placeholder", text, {}, [nodes |-> {}, edges |-> <<>>], <<>>)

\* What generate_visualization returns.
visualization(conversation_id, show_neighbors, db_ok) ==
    LET turns     == load_conversation_from_db(db, conversation_id, db_ok)
        text      == all_text(turns)
        mentioned == mentioned_nodes(graph_file, text)
        sub       == subgraph(graph_file, mentioned, show_neighbors)
    IN  IF conversation_id = None THEN Placeholder("No conversation selected.")
        ELSE IF ~graph_file.exists THEN Placeholder("Knowledge graph not found.")
        ELSE IF ~graph_file.intact
        THEN VizReturn("raises", "json.JSONDecodeError", {}, [nodes |-> {}, edges |-> <<>>], <<>>)
        ELSE IF turns = <<>> THEN Placeholder("Could not load conversation history.")
        ELSE IF mentioned = {}
        THEN Placeholder("No specific code entities found.")
        ELSE VizReturn("diagram", "graph TD", mentioned, sub, mermaid(sub, mentioned))

\* The handler behind "Visualize Impact".
generate_visualization(show_neighbors, db_ok) ==
    /\ last' = Call("visualize",
                    [conversation_id |-> conversation_id_state,
                     show_neighbors |-> show_neighbors, db_ok |-> db_ok],
                    visualization(conversation_id_state, show_neighbors, db_ok))
    /\ UNCHANGED <<dir, graph_file, db, now, history, chat_session, conversation_id_state, requests, ingest>>

-----------------------------------------------------------------------------
(* The chat handlers.  A transcript entry is [role, content]; the live     *)
(* chat object is [live, history], history being the context it holds.     *)

MaxTurns == 2
MaxTime == 1

ChatMessage(role, content) == [role |-> role, content |-> content]

ErrorMessage == <<"s", "o", "r", "r", "y">>
\* "\n\nPlease also provide a detailed criticality assessment ..."
CriticalitySuffix == <<"!">>
\* "\n\n**Sources:**\n- `title`"
Citations == <<"^">>

\* f"conv_{datetime.now().strftime('%Y%m%d%H%M%S')}": the clock counts seconds.
NewConversationId(t) == <<"conv", t>>

Session(context) == [live |-> TRUE, history |-> context]

\* gemini_history: the transcript with role assistant renamed model.
gemini_history(transcript) ==
    [k \in 1..Len(transcript) |->
        ChatMessage(IF transcript[k].role = "assistant" THEN "model" ELSE transcript[k].role,
                    transcript[k].content)]

\* A store that puts the new row in front of the others.
add_chat_history_front(rows, conversation_id, query, response, t, db_ok) ==
    IF db_ok THEN <<Row(conversation_id, t, query, response)>> \o rows ELSE rows

\* add_chat_history: one row stamped datetime.now(); nothing on sqlite3.Error.
add_chat_history(rows, conversation_id, query, response, t, db_ok) ==
    IF db_ok THEN Append(rows, Row(conversation_id, t, query, response)) ELSE rows

\* What a failed send_message leaves in the store.
AfterFailedSend_logged(rows, conversation_id, message, t) ==
    Append(rows, Row(conversation_id, t, message, ErrorMessage))
AfterFailedSend(rows, conversation_id, message, t) == rows

\* What the answer-generation service does with a turn: chats.create raises,
\* send_message raises, or a response arrives.
Outcomes == {"create_raises", "send_raises", "answered"}

\* chat_fn.  Returns [raised, response_text, chat_session, conversation_id_state,
\* new_conversation_started, db]; t is the clock.
chat_fn(message, transcript, session, conversation_id, outcome, text, cited, t, db_ok) ==
    LET new_conversation_started == conversation_id = None
        id       == IF conversation_id = None THEN NewConversationId(t) ELSE conversation_id
        created  == IF ~session.live THEN Session(gemini_history(transcript)) ELSE session
        response_text == IF cited THEN text \o Citations ELSE text
        answered == [created EXCEPT !.history =
                        @ \o <<ChatMessage("user", message), ChatMessage("model", text)>>]
    IN  IF ~session.live /\ outcome = "create_raises"
        THEN [raised |-> TRUE, response_text |-> <<>>, chat_session |-> session,
              conversation_id_state |-> conversation_id,
              new_conversation_started |-> FALSE, db |-> db]
        ELSE IF outcome = "send_raises"
        THEN [raised |-> FALSE, response_text |-> ErrorMessage, chat_session |-> created,
              conversation_id_state |-> id,
              new_conversation_started |-> new_conversation_started,
              db |-> AfterFailedSend(db, id, message, t)]
        ELSE [raised |-> FALSE, response_text |-> response_text, chat_session |-> answered,
              conversation_id_state |-> id,
              new_conversation_started |-> new_conversation_started,
              db |-> IF message # <<>> /\ response_text # <<>> /\ id # None
                     THEN add_chat_history(db, id, message, response_text, t, db_ok)
                     ELSE db]

\* The handler behind Send: chat_wrapper.  When chat_fn raises, no output is
\* written back.
chat_wrapper(message, assess_criticality, outcome, text, cited, db_ok) ==
    LET shown == Append(history, ChatMessage("user", message))
        final_message == IF assess_criticality THEN message \o CriticalitySuffix ELSE message
        r == chat_fn(final_message, shown, chat_session, conversation_id_state,
                     outcome, text, cited, now, db_ok)
    IN  /\ Len(history) < 2 * MaxTurns
        /\ Len(db) < MaxTurns
        /\ outcome = "create_raises" => ~chat_session.live
        /\ outcome # "answered" => text = <<>> /\ ~cited /\ db_ok
        /\ db' = r.db
        /\ IF r.raised
           THEN UNCHANGED <<history, chat_session, conversation_id_state>>
           ELSE /\ history' = Append(shown, ChatMessage("assistant", r.response_text))
                /\ chat_session' = r.chat_session
                /\ conversation_id_state' = r.conversation_id_state
        /\ last' = Call("chat",
                [message |-> message, final_message |-> final_message, outcome |-> outcome],
                [raised |-> r.raised, response_text |-> r.response_text,
                 new_conversation_started |-> r.new_conversation_started])
        /\ UNCHANGED <<dir, graph_file, now, requests, ingest>>

\* The handler behind the conversation list: load_conversation.
load_conversation(conversation_id, db_ok) ==
    LET turns == load_conversation_from_db(db, conversation_id, db_ok)
        chat_history_formatted ==
            [k \in 1..(2 * Len(turns)) |->
                IF k % 2 = 1 THEN ChatMessage("user", turns[(k + 1) \div 2][1])
                ELSE ChatMessage("assistant", turns[k \div 2][2])]
    IN  /\ IF conversation_id = None \/ turns = <<>>
           THEN /\ history' = <<>>
                /\ conversation_id_state' = None
           ELSE /\ history' = chat_history_formatted
                /\ conversation_id_state' = conversation_id
        /\ chat_session' = NoSession
        /\ last' = Call("load", [conversation_id |-> conversation_id, db_ok |-> db_ok],
                        [turns |-> turns])
        /\ UNCHANGED <<dir, graph_file, db, now, requests, ingest>>

\* The handler behind "New Chat": start_new_chat.  The record of the call
\* keeps the conversation id and the session it was made with.
start_new_chat_purge ==
    /\ history' = <<>>
    /\ chat_session' = NoSession
    /\ conversation_id_state' = None
    /\ db' = SelectSeq(db, LAMBDA r : r.conversation_id # conversation_id_state)
    /\ last' = Call("new", [conversation_id |-> conversation_id_state,
                            live |-> chat_session.live], <<>>)
    /\ UNCHANGED <<dir, graph_file, now, requests, ingest>>
start_new_chat_keeps_session ==
    /\ history' = <<>>
    /\ chat_session' = chat_session
    /\ conversation_id_state' = None
    /\ last' = Call("new", [conversation_id |-> conversation_id_state,
                            live |-> chat_session.live], <<>>)
    /\ UNCHANGED <<dir, graph_file, db, now, requests, ingest>>
start_new_chat ==
    /\ history' = <<>>
    /\ chat_session' = NoSession
    /\ conversation_id_state' = None
    /\ last' = Call("new", [conversation_id |-> conversation_id_state,
                            live |-> chat_session.live], <<>>)
    /\ UNCHANGED <<dir, graph_file, db, now, requests, ingest>>

\* DELETE FROM chat_history WHERE conversation_id = ?
delete_conversation_from_db_all(rows, conversation_id) == <<>>
delete_conversation_from_db(rows, conversation_id) ==
    SelectSeq(rows, LAMBDA r : r.conversation_id # conversation_id)

\* What a DELETE that raises sqlite3.Error leaves in the store: the
\* connection's context manager rolls the transaction back.
AfterFailedDelete_partial(rows, conversation_id) ==
    LET mine == {k \in 1..Len(rows) : rows[k].conversation_id = conversation_id}
    IN  IF mine = {} THEN rows
        ELSE LET first == CHOOSE k \in mine : \A j \in mine : k <= j
             IN  SubSeq(rows, 1, first - 1) \o SubSeq(rows, first + 1, Len(rows))
AfterFailedDelete(rows, conversation_id) == rows

\* The handler behind "Delete Selected": delete_conversation.
delete_conversation(db_ok) ==
    /\ IF conversation_id_state = None
       THEN /\ history' = <<>>
            /\ chat_session' = NoSession
            /\ UNCHANGED <<conversation_id_state, db>>
       ELSE IF ~db_ok
       THEN /\ db' = AfterFailedDelete(db, conversation_id_state)
            /\ UNCHANGED <<history, chat_session, conversation_id_state>>
       ELSE /\ db' = delete_conversation_from_db(db, conversation_id_state)
            /\ history' = <<>>
            /\ chat_session' = NoSession
            /\ conversation_id_state' = None
    /\ last' = Call("delete", [conversation_id |-> conversation_id_state, db_ok |-> db_ok],
                    [success |-> (conversation_id_state # None /\ db_ok),
                     removed |-> Len(db) - Len(db')])
    /\ UNCHANGED <<dir, graph_file, now, requests, ingest>>

\* The handler behind "Generate Report": generate_report.  The report lists
\* the persisted turns of the conversation and is written to a temporary
\* file; no report is shown without a conversation id or without turns.
generate_report(db_ok) ==
    LET turns == IF conversation_id_state = None THEN <<>>
                 ELSE load_conversation_from_db(db, conversation_id_state, db_ok)
    IN  /\ last' = Call("report",
                        [conversation_id |-> conversation_id_state, db_ok |-> db_ok],
                        [visible |-> turns # <<>>, interactions |-> turns])
        /\ UNCHANGED <<dir, graph_file, db, now, history, chat_session, conversation_id_state, requests, ingest>>

\* Time passes between two handler calls.
Tick ==
    /\ now < MaxTime
    /\ now' = now + 1
    /\ UNCHANGED <<dir, graph_file, db, history, chat_session, conversation_id_state, last, requests, ingest>>

\* What the user types, and what the service answers.
Messages == {<<>>, <<"a">>}
Answers == {<<>>, <<"b">>}

\* The ids the conversation list offers.
ListedConversations == {db[k].conversation_id : k \in 1..Len(db)}

InitChat ==
    /\ dir = <<>>
    /\ graph_file = Absent
    /\ db = <<>>
    /\ now = 0
    /\ history = <<>>
    /\ chat_session = NoSession
    /\ conversation_id_state = None
    /\ last = NoCall
    /\ requests = NoRequests
    /\ ingest = NoIngest

NextChat ==
    \/ \E message \in Messages, assess_criticality \in BOOLEAN, outcome \in Outcomes,
          text \in Answers, cited \in BOOLEAN, db_ok \in BOOLEAN :
            \* the inputs drawn: a criticality assessment is asked of a real
            \* message, and it is its answer that comes with grounding citations
            /\ assess_criticality => message # <<>>
            /\ cited <=> (assess_criticality /\ text # <<>>)
            /\ chat_wrapper(message, assess_criticality, outcome, text, cited, db_ok)
    \/ \E conversation_id \in ListedConversations \cup {None}, db_ok \in BOOLEAN :
            load_conversation(conversation_id, db_ok)
    \/ start_new_chat
    \/ \E db_ok \in BOOLEAN : delete_conversation(db_ok)
    \/ Tick

SpecChat == InitChat /\ [][NextChat]_vars

-----------------------------------------------------------------------------
(* Turns that overlap.  send_button.click and chat_input.submit are two    *)
(* event listeners on chat_wrapper, and nothing in chat_wrapper or chat_fn *)
(* takes a lock: while one listener waits for send_message or for the      *)
(* INSERT, the other may run its own call from the same component values.  *)
(* A call is taken in the steps at which it can be overtaken.  Each call   *)
(* works on the transcript and the chat context it was started with.       *)

\* chat_wrapper up to chat_session.send_message: the inputs are read, the
\* user message is appended, the id is minted, the chat object is created.
\* When chats.create raises, the call ends with no output.
call_chat_wrapper(l, message, create_raises) ==
    LET shown   == Append(history, ChatMessage("user", message))
        id      == IF conversation_id_state = None THEN NewConversationId(now)
                   ELSE conversation_id_state
        created == IF ~chat_session.live THEN Session(gemini_history(shown))
                   ELSE chat_session
    IN  /\ requests[l].pc = "idle"
        /\ Len(history) < 2 * MaxTurns
        /\ Len(db) < MaxTurns
        /\ create_raises => ~chat_session.live
        /\ IF create_raises
           THEN /\ last' = Call("chat",
                        [message |-> message, final_message |-> message,
                         outcome |-> "create_raises"],
                        [raised |-> TRUE, response_text |-> <<>>,
                         new_conversation_started |-> FALSE])
                /\ UNCHANGED requests
           ELSE /\ requests' = [requests EXCEPT ![l] =
                        [pc |-> "sending", message |-> message, shown |-> shown,
                         chat_session |-> created, conversation_id_state |-> id,
                         new_conversation_started |-> (conversation_id_state = None),
                         response_text |-> <<>>, timestamp |-> 0]]
                /\ UNCHANGED last
        /\ UNCHANGED <<dir, graph_file, db, now, history, chat_session,
                       conversation_id_state, ingest>>

\* send_message returns or raises.  A response that is to be saved takes the
\* call into add_chat_history, where datetime.now() is read for the row.
send_message_ends(l, outcome, text) ==
    LET r == requests[l]
        answered == [r.chat_session EXCEPT !.history =
                        @ \o <<ChatMessage("user", r.message), ChatMessage("model", text)>>]
        saves == r.message # <<>> /\ text # <<>> /\ r.conversation_id_state # None
    IN  /\ r.pc = "sending"
        /\ outcome \in {"send_raises", "answered"}
        /\ outcome = "send_raises" => text = <<>>
        /\ requests' = [requests EXCEPT ![l] =
                IF outcome = "send_raises"
                THEN [r EXCEPT !.pc = "returning", !.response_text = ErrorMessage]
                ELSE [r EXCEPT !.pc = IF saves THEN "inserting" ELSE "returning",
                               !.response_text = text,
                               !.chat_session = answered,
                               !.timestamp = now]]
        /\ UNCHANGED <<dir, graph_file, db, now, history, chat_session,
                       conversation_id_state, last, ingest>>

\* cursor.execute("INSERT ...") of add_chat_history, with the timestamp read
\* before.
insert_row(l, db_ok) ==
    LET r == requests[l]
    IN  /\ r.pc = "inserting"
        /\ db' = add_chat_history(db, r.conversation_id_state, r.message, r.response_text,
                                  r.timestamp, db_ok)
        /\ requests' = [requests EXCEPT ![l].pc = "returning"]
        /\ UNCHANGED <<dir, graph_file, now, history, chat_session,
                       conversation_id_state, last, ingest>>

\* chat_wrapper returns: the assistant message is appended and the outputs
\* are written to the components.
return_chat_wrapper(l) ==
    LET r == requests[l]
    IN  /\ r.pc = "returning"
        /\ history' = Append(r.shown, ChatMessage("assistant", r.response_text))
        /\ chat_session' = r.chat_session
        /\ conversation_id_state' = r.conversation_id_state
        /\ last' = Call("chat",
                [message |-> r.message, final_message |-> r.message,
                 outcome |-> IF r.response_text = ErrorMessage THEN "send_raises"
                             ELSE "answered"],
                [raised |-> FALSE, response_text |-> r.response_text,
                 new_conversation_started |-> r.new_conversation_started])
        /\ requests' = [requests EXCEPT ![l] = IdleRequest]
        /\ UNCHANGED <<dir, graph_file, db, now, ingest>>

\* Time passes while calls run.
TickDuringCalls ==
    /\ now < MaxTime
    /\ now' = now + 1
    /\ UNCHANGED <<dir, graph_file, db, history, chat_session, conversation_id_state,
                   last, requests, ingest>>

InitConcurrent ==
    /\ dir = <<>>
    /\ graph_file = Absent
    /\ db = <<>>
    /\ now = 0
    /\ history = <<>>
    /\ chat_session = NoSession
    /\ conversation_id_state = None
    /\ last = NoCall
    /\ requests = NoRequests
    /\ ingest = NoIngest

NextConcurrent ==
    \/ \E l \in Listeners, message \in Messages, create_raises \in BOOLEAN :
            call_chat_wrapper(l, message, create_raises)
    \/ \E l \in Listeners, outcome \in Outcomes, text \in Answers :
            send_message_ends(l, outcome, text)
    \/ \E l \in Listeners, db_ok \in BOOLEAN : insert_row(l, db_ok)
    \/ \E l \in Listeners : return_chat_wrapper(l)
    \/ TickDuringCalls

SpecConcurrent == InitConcurrent /\ [][NextConcurrent]_vars

-----------------------------------------------------------------------------
(* The session manager next to the graph builder: the graph is built and   *)
(* conversations are opened, loaded, visualized, reported, deleted and     *)
(* left.  Every turn is the first turn of its conversation.                *)

\* The directory the graph is built from: a.py declaring function a.
SessionDir == <<File(<<>>, Id_apy, "ok", <<AstNode("FunctionDef", <<"a">>, <<>>)>>)>>

InitSession ==
    /\ dir = SessionDir
    /\ graph_file = Absent
    /\ db = <<>>
    /\ now = 0
    /\ history = <<>>
    /\ chat_session = NoSession
    /\ conversation_id_state = None
    /\ last = NoCall
    /\ requests = NoRequests
    /\ ingest = NoIngest

NextSession ==
    \/ \E message \in Messages, outcome \in Outcomes, text \in Answers, db_ok \in BOOLEAN :
            /\ conversation_id_state = None
            /\ chat_wrapper(message, FALSE, outcome, text, FALSE, db_ok)
    \/ \E show_neighbors \in BOOLEAN, db_ok \in BOOLEAN :
            generate_visualization(show_neighbors, db_ok)
    \/ \E conversation_id \in ListedConversations \cup {None}, db_ok \in BOOLEAN :
            load_conversation(conversation_id, db_ok)
    \/ start_new_chat
    \/ \E db_ok \in BOOLEAN : delete_conversation(db_ok)
    \/ \E db_ok \in BOOLEAN : generate_report(db_ok)
    \/ build_knowledge_graph
    \/ Tick

SpecSession == InitSession /\ [][NextSession]_vars

-----------------------------------------------------------------------------
(* Visualization requests over a persisted graph and a loaded conversation. *)

MaxEdges == 2

Id_a  == <<"a">>
Id_bc == <<"b", "c">>
Id_x  == <<"x">>

\* The graphs drawn: the file node of a.py alone, or with function a and
\* class bc; the edges start at a node and end at a, bc or the undeclared x.
VizNodeLists ==
    {<<>>,
     <<GraphNode(Id_apy, "file", Id_apy)>>,
     <<GraphNode(Id_apy, "file", Id_apy), GraphNode(Id_a, "function", Id_apy)>>,
     <<GraphNode(Id_apy, "file", Id_apy), GraphNode(Id_bc, "class", Id_apy)>>,
     <<GraphNode(Id_apy, "file", Id_apy), GraphNode(Id_a, "function", Id_apy),
       GraphNode(Id_bc, "class", Id_apy)>>}

VizEdges(nodes) ==
    {GraphEdge(nodes[k].id, target,
               IF nodes[k].type = "file" /\ target = Id_x THEN "imports" ELSE "calls") :
        k \in 1..Len(nodes), target \in {Id_a, Id_bc, Id_x}}

SeqsUpTo(S, n) == UNION {[1..k -> S] : k \in 0..n}

\* The turns drawn, as <<query, response>>.
VizTurns == {<<<<"a">>, <<"b">>>>, <<<<"c">>, <<"b">>>>, <<<<"c">>, <<"z">>>>}

\* The conversation shown, and another one whose row is in the store too.
VizConversation == NewConversationId(1)
OtherConversation == NewConversationId(0)

InitViz ==
    /\ dir = <<>>
    /\ \E nodes \in VizNodeLists :
         \E edges \in SeqsUpTo(VizEdges(nodes), MaxEdges) :
            graph_file \in {Absent, Partial, GraphDoc([nodes |-> nodes, edges |-> edges])}
    /\ \E turns \in SeqsUpTo(VizTurns, MaxTurns) :
         /\ db = <<Row(OtherConversation, 0, <<"a">>, <<"b">>)>>
                    \o [k \in 1..Len(turns) |->
                            Row(VizConversation, k, turns[k][1], turns[k][2])]
         /\ now = Len(turns)
         /\ \/ /\ conversation_id_state = None
               /\ history = <<>>
            \/ /\ turns # <<>>
               /\ conversation_id_state = VizConversation
               /\ history = [k \in 1..(2 * Len(turns)) |->
                                IF k % 2 = 1 THEN ChatMessage("user", turns[(k + 1) \div 2][1])
                                ELSE ChatMessage("assistant", turns[k \div 2][2])]
    /\ chat_session = NoSession
    /\ last = NoCall
    /\ requests = NoRequests
    /\ ingest = NoIngest

NextViz ==
    \E show_neighbors \in BOOLEAN, db_ok \in BOOLEAN :
        generate_visualization(show_neighbors, db_ok)

SpecViz == InitViz /\ [][NextViz]_vars

-----------------------------------------------------------------------------
(* Diagrams of a graph whose identifiers differ in '.', '-' and '_' only:  *)
(* file a.py declares function a_py and function a.                        *)

Id_a_py == <<"a", "_", "p", "y">>

DiagramNodeLists ==
    {<<GraphNode(Id_apy, "file", Id_apy), GraphNode(Id_a_py, "function", Id_apy)>>,
     <<GraphNode(Id_apy, "file", Id_apy), GraphNode(Id_a, "function", Id_apy)>>,
     <<GraphNode(Id_apy, "file", Id_apy), GraphNode(Id_a_py, "function", Id_apy),
       GraphNode(Id_a, "function", Id_apy)>>}

\* The edges start at a declared node and end at a_py, a or the undeclared
\* module x.
DiagramEdges(nodes) ==
    {GraphEdge(nodes[k].id, target, IF target = Id_x THEN "imports" ELSE "calls") :
        k \in 1..Len(nodes), target \in {Id_a_py, Id_a, Id_x}}

\* The turns drawn, as <<query, response>>.
DiagramTurns == {<<Id_apy, <<"b">>>>, <<Id_a_py, <<"b">>>>, <<<<"z">>, Id_a>>}

InitDiagram ==
    /\ dir = <<>>
    /\ \E nodes \in DiagramNodeLists :
         \E edges \in SeqsUpTo(DiagramEdges(nodes), MaxEdges) :
            graph_file = GraphDoc([nodes |-> nodes, edges |-> edges])
    /\ \E turns \in SeqsUpTo(DiagramTurns, MaxTurns) :
         /\ turns # <<>>
         /\ db = [k \in 1..Len(turns) |-> Row(VizConversation, k, turns[k][1], turns[k][2])]
         /\ now = Len(turns)
         /\ conversation_id_state = VizConversation
         /\ history = [k \in 1..(2 * Len(turns)) |->
                            IF k % 2 = 1 THEN ChatMessage("user", turns[(k + 1) \div 2][1])
                            ELSE ChatMessage("assistant", turns[k \div 2][2])]
    /\ chat_session = NoSession
    /\ last = NoCall
    /\ requests = NoRequests
    /\ ingest = NoIngest

NextDiagram ==
    \E show_neighbors \in BOOLEAN : generate_visualization(show_neighbors, TRUE)

SpecDiagram == InitDiagram /\ [][NextDiagram]_vars

-----------------------------------------------------------------------------
(* Properties of the mention resolver and the subgraph selector.           *)

\* The last handler call was a visualization request that drew a diagram.
VizDiagram == last.op = "visualize" /\ last.ret.kind = "diagram"

\* The last handler call was a visualization request that got as far as
\* looking for mentions.
VizResolved ==
    /\ last.op = "visualize"
    /\ \/ last.ret.kind = "diagram"
       \/ last.ret.kind = "placeholder" /\ last.ret.text = "No specific code entities found."

\* How many times e is in the sequence edges.
Count(e, edges) == Cardinality({k \in 1..Len(edges) : edges[k] = e})

Endpoints(edges) == UNION {{edges[k].source, edges[k].target} : k \in 1..Len(edges)}

NodeIds(doc) == {doc.nodes[k].id : k \in 1..Len(doc.nodes)}

\* The persisted queries and responses of a conversation, concatenated in order.
RECURSIVE ConversationText(_, _)
ConversationText(rows, conversation_id) ==
    IF rows = <<>> THEN <<>>
    ELSE (IF Head(rows).conversation_id = conversation_id
          THEN Head(rows).query \o Head(rows).response ELSE <<>>)
         \o ConversationText(Tail(rows), conversation_id)

\* id is a literal substring of text.
Occurs(id, text) ==
    \E i \in 1..Len(text) :
        /\ i + Len(id) - 1 <= Len(text)
        /\ SubSeq(text, i, i + Len(id) - 1) = id

\* C5: for the mentioned set of a drawn diagram, the nodes selected in
\* neighbor mode include the nodes selected in focused mode, and the edges
\* selected in neighbor mode include the edges selected in focused mode.
C5_NeighborsIncludeFocused ==
    VizDiagram =>
        LET other    == subgraph(graph_file, last.ret.mentioned_nodes,
                                 ~last.arg.show_neighbors)
            mine     == [nodes |-> last.ret.subgraph_nodes, edges |-> last.ret.subgraph_edges]
            neighbor == IF last.arg.show_neighbors THEN mine ELSE other
            focused  == IF last.arg.show_neighbors THEN other ELSE mine
        IN  /\ focused.nodes \subseteq neighbor.nodes
            /\ \A e \in Range(graph_file.edges) :
                    Count(e, focused.edges) <= Count(e, neighbor.edges)

\* A neighbor diagram with more nodes and more edges than the focused
\* diagram, which is not empty.
C5_Witness ==
    /\ VizDiagram
    /\ last.arg.show_neighbors
    /\ LET focused == subgraph(graph_file, last.ret.mentioned_nodes, FALSE)
       IN  /\ focused.nodes # {}
           /\ focused.nodes # last.ret.subgraph_nodes
           /\ Len(focused.edges) < Len(last.ret.subgraph_edges)

\* C6: in focused mode the selected edges are exactly the graph edges whose
\* source and target are both mentioned, and the selected nodes are exactly
\* the endpoints of those edges.
C6_FocusedSelection ==
    (VizDiagram /\ ~last.arg.show_neighbors) =>
        LET M == last.ret.mentioned_nodes IN
        /\ \A e \in Range(graph_file.edges) \cup Range(last.ret.subgraph_edges) :
                Count(e, last.ret.subgraph_edges) =
                    IF e.source \in M /\ e.target \in M
                    THEN Count(e, graph_file.edges) ELSE 0
        /\ last.ret.subgraph_nodes = Endpoints(last.ret.subgraph_edges)

\* A focused diagram with an edge, and a mentioned node that is not drawn.
C6_Witness ==
    /\ VizDiagram
    /\ ~last.arg.show_neighbors
    /\ last.ret.subgraph_edges # <<>>
    /\ last.ret.mentioned_nodes \ last.ret.subgraph_nodes # {}

\* C7: in neighbor mode the selected edges are exactly the graph edges whose
\* source or target is mentioned, and the selected nodes are exactly the
\* mentioned nodes and the endpoints of the selected edges.
C7_NeighborSelection ==
    (VizDiagram /\ last.arg.show_neighbors) =>
        LET M == last.ret.mentioned_nodes IN
        /\ \A e \in Range(graph_file.edges) \cup Range(last.ret.subgraph_edges) :
                Count(e, last.ret.subgraph_edges) =
                    IF e.source \in M \/ e.target \in M
                    THEN Count(e, graph_file.edges) ELSE 0
        /\ last.ret.subgraph_nodes = M \cup Endpoints(last.ret.subgraph_edges)

\* A neighbor diagram that draws a node that is not mentioned, reached by an
\* edge that ends at a mentioned node, from a graph with an edge left out.
C7_Witness ==
    /\ VizDiagram
    /\ last.arg.show_neighbors
    /\ \E k \in 1..Len(last.ret.subgraph_edges) :
            /\ last.ret.subgraph_edges[k].source \notin last.ret.mentioned_nodes
            /\ last.ret.subgraph_edges[k].target \in last.ret.mentioned_nodes
    /\ Len(last.ret.subgraph_edges) < Len(graph_file.edges)

\* C8: a node identifier of the persisted graph is mentioned if and only if
\* it is a literal substring of the concatenation of the persisted queries
\* and responses of the conversation.
C8_MentionedIffSubstring ==
    VizResolved =>
        /\ last.ret.mentioned_nodes \subseteq NodeIds(graph_file)
        /\ \A id \in NodeIds(graph_file) :
                id \in last.ret.mentioned_nodes
                    <=> Occurs(id, ConversationText(db, last.arg.conversation_id))

\* A diagram that mentions bc although no single turn holds it: the b ends
\* one turn and the c starts the next; and a node that is not mentioned.
C8_Witness ==
    /\ VizDiagram
    /\ Id_bc \in last.ret.mentioned_nodes
    /\ \A k \in 1..Len(db) : ~Occurs(Id_bc, db[k].query \o db[k].response)
    /\ NodeIds(graph_file) \ last.ret.mentioned_nodes # {}

\* C9: against the empty text no node of any graph is mentioned; and a
\* request whose graph has no node, or whose conversation text holds no node
\* identifier, finds the empty set and returns a placeholder, not an error.
C9_NoMentionIsEmptySet ==
    graph_file.intact =>
        /\ mentioned_nodes(graph_file, <<>>) = {}
        /\ ( /\ last.op = "visualize"
              /\ last.arg.conversation_id # None
              /\ last.arg.db_ok
              /\ ConversationText(db, last.arg.conversation_id) # <<>>
              /\ \A id \in NodeIds(graph_file) :
                    ~Occurs(id, ConversationText(db, last.arg.conversation_id)) )
            => /\ last.ret.kind = "placeholder"
               /\ last.ret.text = "No specific code entities found."
               /\ last.ret.mentioned_nodes = {}

\* A request over a graph with nodes and a conversation that names none of them.
C9_Witness ==
    /\ last.op = "visualize"
    /\ last.ret.kind = "placeholder"
    /\ last.ret.text = "No specific code entities found."
    /\ Len(graph_file.nodes) >= 2
    /\ ConversationText(db, last.arg.conversation_id) # <<>>

-----------------------------------------------------------------------------
(* Properties of the conversation session manager.                         *)

\* C10: a turn whose answer-generation call fails leaves the conversation
\* store as it was.
C10_FailedTurnPersistsNothing ==
    [][(last'.op = "chat" /\ last'.arg.outcome # "answered") => db' = db]_vars

\* A failed turn in a conversation that has a persisted turn.
C10_Witness ==
    /\ last.op = "chat"
    /\ last.arg.outcome = "send_raises"
    /\ conversation_id_state # None
    /\ \E k \in 1..Len(db) : db[k].conversation_id = conversation_id_state

\* A step of chat_wrapper: the clock stands still and the last call is a turn.
ChatStep == now' = now /\ last'.op = "chat"

\* The state of the manager: Idle, Active or Loaded.
ManagerState(conversation_id, session) ==
    IF session.live THEN "Active"
    ELSE IF conversation_id = None THEN "Idle" ELSE "Loaded"

\* C11: a turn that fails leaves the transcript, the selected conversation id
\* and the live session as they were, and returns the apology without raising.
C11_FailedTurnChangesNothing ==
    [][(ChatStep /\ last'.arg.outcome # "answered") =>
            /\ history' = history
            /\ conversation_id_state' = conversation_id_state
            /\ chat_session'.live = chat_session.live
            /\ ~last'.ret.raised
            /\ last'.ret.response_text = ErrorMessage]_vars

\* C12: a turn that is answered appends exactly one record (conversation id,
\* timestamp, query, response) under the turn's conversation id, and leaves
\* the manager Active.
C12_AnsweredTurnAppendsOneRecord ==
    [][(ChatStep /\ last'.arg.outcome = "answered") =>
            /\ db' = Append(db, Row(conversation_id_state', now,
                                    last'.arg.final_message, last'.ret.response_text))
            /\ ManagerState(conversation_id_state', chat_session') = "Active"]_vars

\* The persisted turns of a conversation, in the order of the store.
TurnsOf(rows, conversation_id) ==
    SelectSeq(rows, LAMBDA r : r.conversation_id = conversation_id)

\* The one-to-one maps of 1..n onto itself.
Orderings(n) == {f \in [1..n -> 1..n] : \A i, j \in 1..n : i # j => f[i] # f[j]}

\* C13: loading a conversation with n persisted turns shows 2n entries, the
\* query of a turn as user and then its response as assistant, the turns in
\* ascending timestamp order, and clears the live session.
C13_LoadShowsTurnsInOrder ==
    (last.op = "load" /\ last.arg.conversation_id # None /\ last.arg.db_ok) =>
        LET rows == TurnsOf(db, last.arg.conversation_id)
            n    == Len(rows)
        IN  /\ Len(history) = 2 * n
            /\ \E f \in Orderings(n) :
                /\ \A i, j \in 1..n : i < j => rows[f[i]].timestamp <= rows[f[j]].timestamp
                /\ \A k \in 1..n :
                    /\ history[2 * k - 1] = ChatMessage("user", rows[f[k]].query)
                    /\ history[2 * k] = ChatMessage("assistant", rows[f[k]].response)
            /\ ~chat_session.live

\* A conversation of two different turns, persisted at different times, loaded.
C13_Witness ==
    /\ last.op = "load"
    /\ last.arg.db_ok
    /\ LET rows == TurnsOf(db, last.arg.conversation_id)
       IN  /\ Len(rows) = 2
           /\ rows[1].timestamp < rows[2].timestamp
           /\ rows[1].query # rows[2].query
    /\ Len(history) = 4

\* C14: loading a conversation id leaves the manager Loaded: the selected
\* conversation id is the requested id and there is no live session.
C14_LoadLeavesLoaded ==
    (last.op = "load" /\ last.arg.conversation_id # None) =>
        /\ conversation_id_state = last.arg.conversation_id
        /\ ~chat_session.live
        /\ ManagerState(conversation_id_state, chat_session) = "Loaded"

\* The same, for a load whose read of the store returned turns.
C14_LoadWithTurnsLeavesLoaded ==
    (last.op = "load" /\ last.arg.conversation_id # None /\ last.ret.turns # <<>>) =>
        ManagerState(conversation_id_state, chat_session) = "Loaded"

\* A step of delete_conversation.
DeleteStep == now' = now /\ last'.op = "delete"

Conversations(rows) == {rows[k].conversation_id : k \in 1..Len(rows)}

\* C15: a delete that the store carries out removes every persisted turn of
\* the conversation id and no turn of another id, and leaves the manager Idle
\* with an empty transcript, whether or not the id had a persisted turn.
C15_DeleteRemovesTheConversation ==
    [][(DeleteStep /\ last'.arg.db_ok) =>
            LET id == last'.arg.conversation_id IN
            /\ id # None => last'.ret.success
            /\ TurnsOf(db', id) = <<>>
            /\ \A c \in Conversations(db) \ {id} : TurnsOf(db', c) = TurnsOf(db, c)
            /\ Len(db') = Len(db) - Len(TurnsOf(db, id))
            /\ ManagerState(conversation_id_state', chat_session') = "Idle"
            /\ history' = <<>>]_vars

\* A delete that removed the turns of one conversation and left a turn of another.
C15_Witness ==
    /\ last.op = "delete"
    /\ last.ret.success
    /\ last.ret.removed >= 1
    /\ db # <<>>
    /\ conversation_id_state = None

\* A delete of an id that had no persisted turn: the id of a first turn that failed.
C15_WitnessNoTurns ==
    /\ last.op = "delete"
    /\ last.ret.success
    /\ last.ret.removed = 0
    /\ conversation_id_state = None

\* C16: a delete that fails with a storage error leaves the selected
\* conversation id, the live session, the transcript and the store unchanged.
C16_FailedDeleteChangesNothing ==
    [][(DeleteStep /\ last'.arg.conversation_id # None /\ ~last'.arg.db_ok) =>
            /\ ~last'.ret.success
            /\ conversation_id_state' = conversation_id_state
            /\ chat_session' = chat_session
            /\ history' = history
            /\ db' = db]_vars

\* A failed delete of an active conversation that has a persisted turn.
C16_Witness ==
    /\ last.op = "delete"
    /\ ~last.arg.db_ok
    /\ ~last.ret.success
    /\ conversation_id_state # None
    /\ TurnsOf(db, conversation_id_state) # <<>>
    /\ chat_session.live
    /\ history # <<>>

\* A step of start_new_chat.
NewStep == now' = now /\ last'.op = "new"

\* C17: start new chat, from any state, clears the conversation id and the
\* live session and leaves the conversation store and the persisted graph
\* as they were.
C17_NewChatClearsAndKeepsData ==
    [][NewStep =>
            /\ conversation_id_state' = None
            /\ ~chat_session'.live
            /\ ManagerState(conversation_id_state', chat_session') = "Idle"
            /\ db' = db
            /\ graph_file' = graph_file]_vars

\* A new chat started from an active conversation with a persisted turn, next
\* to a persisted graph.
C17_Witness ==
    /\ last.op = "new"
    /\ last.arg.live
    /\ TurnsOf(db, last.arg.conversation_id) # <<>>
    /\ graph_file.intact
    /\ graph_file.nodes # <<>>
    /\ conversation_id_state = None
    /\ ~chat_session.live

\* A new chat started from a loaded conversation.
C17_WitnessLoaded ==
    /\ last.op = "new"
    /\ ~last.arg.live
    /\ TurnsOf(db, last.arg.conversation_id) # <<>>
    /\ conversation_id_state = None

\* No node identifier of the persisted graph occurs in the conversation.
NoneMentioned(conversation_id) ==
    /\ graph_file.intact
    /\ \A id \in NodeIds(graph_file) : ~Occurs(id, ConversationText(db, conversation_id))

C18_WitnessNoConversation ==
    /\ last.op = "visualize"
    /\ last.arg.conversation_id = None
    /\ graph_file = Partial
    /\ last.ret.kind = "placeholder"

\* A request for a conversation whose turns name no node of a graph with nodes.
C18_WitnessNoneMentioned ==
    /\ last.op = "visualize"
    /\ last.arg.db_ok
    /\ Len(TurnsOf(db, last.arg.conversation_id)) = 2
    /\ Len(graph_file.nodes) = 3
    /\ NoneMentioned(last.arg.conversation_id)
    /\ last.ret.kind = "placeholder"

\* C19: for a conversation with no persisted turn, the id minted by a first
\* turn that failed included, a visualization request returns a placeholder,
\* not an error.
C19_NoTurnsPlaceholder ==
    (last.op = "visualize" /\ TurnsOf(db, last.arg.conversation_id) = <<>>) =>
        last.ret.kind = "placeholder"

\* The same over a graph document that is absent or complete.
C19_NoTurnsPlaceholderReadableGraph ==
    (last.op = "visualize" /\ TurnsOf(db, last.arg.conversation_id) = <<>>
        /\ graph_file # Partial) =>
        /\ last.ret.kind = "placeholder"
        /\ last.ret.text = IF last.arg.conversation_id = None THEN "No conversation selected."
                           ELSE IF ~graph_file.exists THEN "Knowledge graph not found."
                           ELSE "Could not load conversation history."

\* C20: a build whose write of the graph document fails is reported as
\* failed and leaves the document that was there before the build.
C20_FailedWriteKeepsPriorGraph ==
    (last.op = "build" /\ last.ret.out # <<>>
        /\ last.ret.out[Len(last.ret.out)] = Msg("error_saving", None)) =>
        /\ ~last.ret.saved
        /\ graph_file = last.arg.prior

-----------------------------------------------------------------------------
(* Properties of rebuilds and of merging.                                  *)

\* A step of build_knowledge_graph on a valid directory path.
BuildStep == dir' = dir /\ last'.op = "build" /\ last'.arg.valid_path

\* The step reported that the graph could not be saved.
SaveFailed == last'.ret.out[Len(last'.ret.out)] = Msg("error_saving", None)

\* C21: after a build of a directory snapshot the persisted graph holds
\* exactly the nodes and edges extracted from that snapshot, and nothing of
\* the graph persisted before.
C21_RebuildReplaces ==
    [][(BuildStep /\ ~SaveFailed) =>
            /\ graph_file'.nodes = BuildGraph(dir, Absent).nodes
            /\ graph_file'.edges = BuildGraph(dir, Absent).edges]_vars

\* The same for the builds whose scan finds a Python file.
C21_RebuildReplacesWhenFilesFound ==
    [][(BuildStep /\ ~SaveFailed /\ python_files(dir) # <<>>) =>
            graph_file' = GraphDoc(BuildGraph(dir, Absent))]_vars

\* Directory d without its file i.
Without(d, i) == SubSeq(d, 1, i - 1) \o SubSeq(d, i + 1, Len(d))

\* The scanned files whose parse fails.
Unparsable(d) == {i \in 1..Len(d) : IsPythonFile(d[i]) /\ d[i].kind = "syntax_error"}

\* C22: a file whose parse fails adds no node and no edge to the built
\* graph, an error tagged with the file is reported, and every scanned file
\* is still analyzed.
C22_ParseFailureContributesNothing ==
    BuildSaved =>
        \A i \in Unparsable(dir) :
            /\ graph_file.nodes = BuildGraph(Without(dir, i), Absent).nodes
            /\ graph_file.edges = BuildGraph(Without(dir, i), Absent).edges
            /\ Msg("error_analyzing", dir[i].name) \in Range(last.ret.out)
            /\ \A k \in 1..Len(dir) :
                    IsPythonFile(dir[k]) => Msg("analyzing", dir[k].name) \in Range(last.ret.out)

\* What does hold: the file adds no edge and no node but its own file node,
\* the error is reported and every scanned file is analyzed.
C22_ParseFailureKeepsFileNode ==
    BuildSaved =>
        \A i \in Unparsable(dir) :
            /\ graph_file.edges = BuildGraph(Without(dir, i), Absent).edges
            /\ NodeSet(graph_file) \ {GraphNode(dir[i].name, "file", dir[i].name)}
                    \subseteq NodeSet(BuildGraph(Without(dir, i), Absent))
            /\ Msg("error_analyzing", dir[i].name) \in Range(last.ret.out)
            /\ \A k \in 1..Len(dir) :
                    IsPythonFile(dir[k]) => Msg("analyzing", dir[k].name) \in Range(last.ret.out)

\* Some statement of body, at any depth, is a definition of the given kind
\* and name.
RECURSIVE Declares(_, _, _)
Declares(body, kind, name) ==
    \E i \in 1..Len(body) :
        \/ body[i].kind = kind /\ body[i].name = name
        \/ Declares(body[i].body, kind, name)

\* The scanned files that were read and are not blank.
AnalyzedFiles(d) == SelectSeq(python_files(d), LAMBDA f : f.kind \in {"ok", "syntax_error"})

DefKindOf(type) == IF type = "function" THEN "FunctionDef" ELSE "ClassDef"

\* C27: every node of a built graph is the file node of an analyzed file or a
\* function or class definition found in an analyzed file, and the edges that
\* an analyzed file gives are kept whether or not their endpoints are nodes.
C27_NoNodeFromEdgeEndpoint ==
    BuildSaved =>
        /\ \A n \in NodeSet(graph_file) :
            \/ /\ n.type = "file"
               /\ n.file = n.id
               /\ \E k \in 1..Len(AnalyzedFiles(dir)) : AnalyzedFiles(dir)[k].name = n.id
            \/ /\ n.type \in {"function", "class"}
               /\ \E k \in 1..Len(OkFiles(dir)) :
                    /\ OkFiles(dir)[k].name = n.file
                    /\ Declares(OkFiles(dir)[k].tree, DefKindOf(n.type), n.id)
        /\ \A k \in 1..Len(OkFiles(dir)) :
                Range(Analyze(OkFiles(dir)[k].name, OkFiles(dir)[k].tree).edges)
                    \subseteq Range(graph_file.edges)

\* A saved graph with nodes and with a calls edge to a name that no file declares.
C27_Witness ==
    /\ BuildSaved
    /\ graph_file.nodes # <<>>
    /\ \E k \in 1..Len(graph_file.edges) :
            /\ graph_file.edges[k].type = "calls"
            /\ \A j \in 1..Len(graph_file.nodes) :
                    graph_file.nodes[j].id # graph_file.edges[k].target

\* The definitions of a sequence of statements of file file_name, in the
\* order the visitor meets them.
RECURSIVE DeclsOf(_, _)
DeclsOf(body, file_name) ==
    IF body = <<>> THEN <<>>
    ELSE (IF Head(body).kind = "FunctionDef"
          THEN <<GraphNode(Head(body).name, "function", file_name)>>
          ELSE IF Head(body).kind = "ClassDef"
          THEN <<GraphNode(Head(body).name, "class", file_name)>>
          ELSE <<>>)
         \o DeclsOf(Head(body).body, file_name)
         \o DeclsOf(Tail(body), file_name)

\* The declarations of a sequence of analyzed files, in processing order:
\* each file, then the definitions found in it.
RECURSIVE AllDecls(_)
AllDecls(files) ==
    IF files = <<>> THEN <<>>
    ELSE <<GraphNode(Head(files).name, "file", Head(files).name)>>
         \o (IF Head(files).kind = "ok" THEN DeclsOf(Head(files).tree, Head(files).name)
             ELSE <<>>)
         \o AllDecls(Tail(files))

\* The index of the first declaration of id.
FirstIndex(decls, id) ==
    CHOOSE k \in 1..Len(decls) :
        decls[k].id = id /\ \A j \in 1..(k - 1) : decls[j].id # id

\* C28: the graph keeps, for every declared identifier, the node (type and
\* owning file) of its first declaration in processing order, the nodes in
\* the order of those first declarations; a later declaration of the
\* identifier adds no node and changes none.
C28_FirstWriterWins ==
    BuildSaved =>
        LET decls == AllDecls(AnalyzedFiles(dir))
            nodes == graph_file.nodes
        IN  /\ {decls[k].id : k \in 1..Len(decls)} = {nodes[i].id : i \in 1..Len(nodes)}
            /\ Len(nodes) = Cardinality({decls[k].id : k \in 1..Len(decls)})
            /\ \A i \in 1..Len(nodes) : nodes[i] = decls[FirstIndex(decls, nodes[i].id)]
            /\ \A i, j \in 1..Len(nodes) :
                    i < j => FirstIndex(decls, nodes[i].id) < FirstIndex(decls, nodes[j].id)

\* A saved graph of two files of different names that both declare f, the
\* second one as another type.
C28_Witness ==
    /\ BuildSaved
    /\ LET decls == AllDecls(AnalyzedFiles(dir))
       IN  \E i, j \in 1..Len(decls) :
            /\ i < j
            /\ decls[i].id = Id_f /\ decls[j].id = Id_f
            /\ decls[i].type # decls[j].type
            /\ decls[i].file # decls[j].file
            /\ decls[i] \in NodeSet(graph_file)

\* The edges of a sequence of statements of file file_name met under scope,
\* in source order: a statement's own edges, then those of what it holds.
RECURSIVE EdgesOf(_, _, _)
EdgesOf(body, file_name, scope) ==
    IF body = <<>> THEN <<>>
    ELSE LET node == Head(body)
             own  == CASE node.kind = "Import" ->
                            [k \in 1..Len(node.names) |->
                                GraphEdge(file_name, node.names[k], "imports")]
                       [] node.kind = "ImportFrom" /\ node.name # None ->
                            <<GraphEdge(file_name, node.name, "imports")>>
                       [] node.kind = "Call" /\ node.name # None ->
                            <<GraphEdge(scope, node.name, "calls")>>
                       [] OTHER -> <<>>
             inner == IF node.kind \in {"FunctionDef", "ClassDef"} THEN node.name ELSE scope
         IN  own \o EdgesOf(node.body, file_name, inner) \o EdgesOf(Tail(body), file_name, scope)

RECURSIVE EdgesOfFiles(_)
EdgesOfFiles(files) ==
    IF files = <<>> THEN <<>>
    ELSE EdgesOf(Head(files).tree, Head(files).name, Head(files).name)
         \o EdgesOfFiles(Tail(files))

-----------------------------------------------------------------------------
(* Properties of the conversation store.                                   *)

\* C23: a turn that starts a conversation mints an id that no conversation
\* of the store has, so the turns of two conversations are never grouped
\* under one id.
C23_MintedIdIsFresh ==
    [][(ChatStep /\ last'.ret.new_conversation_started) =>
            conversation_id_state' \notin Conversations(db)]_vars

\* rows is prefix, or prefix with one row more at its end.
GrownByAtMostOne(prefix, rows) ==
    \/ rows = prefix
    \/ Len(rows) = Len(prefix) + 1 /\ SubSeq(rows, 1, Len(prefix)) = prefix

\* C26: in every step the turns of a conversation id stay as they are or get
\* one turn more at the end; only a delete of that id takes turns away, and
\* it takes all of them.
C26_AppendOnlyPerConversation ==
    [][\A id \in Conversations(db) \cup Conversations(db') :
            \/ GrownByAtMostOne(TurnsOf(db, id), TurnsOf(db', id))
            \/ /\ DeleteStep
               /\ last'.arg.conversation_id = id
               /\ TurnsOf(db', id) = <<>>]_vars

\* A conversation of two turns next to another conversation, after a turn.
C26_Witness ==
    /\ last.op = "chat"
    /\ \E id \in Conversations(db) : Len(TurnsOf(db, id)) = 2

\* A store that, after a delete, still holds a conversation.
C26_WitnessDelete ==
    /\ last.op = "delete"
    /\ last.ret.removed >= 1
    /\ db # <<>>

-----------------------------------------------------------------------------
(* Properties of overlapping turns *)

\* C24: within a conversation id the rows, in the order they were appended,
\* have non-decreasing timestamps.
C24_TimestampsNonDecreasing ==
    \A i, j \in 1..Len(db) :
        (i < j /\ db[i].conversation_id = db[j].conversation_id)
            => db[i].timestamp <= db[j].timestamp

\* C25: at most one send_message call is in flight for a conversation id.
C25_OneInFlightPerConversation ==
    \A l1, l2 \in Listeners :
        (l1 # l2 /\ requests[l1].pc = "sending" /\ requests[l2].pc = "sending")
            => requests[l1].conversation_id_state # requests[l2].conversation_id_state

\* The same for calls made on an already open conversation.
C25_OneInFlightPerOpenConversation ==
    \A l1, l2 \in Listeners :
        (/\ l1 # l2
         /\ requests[l1].pc = "sending" /\ requests[l2].pc = "sending"
         /\ ~requests[l1].new_conversation_started
         /\ ~requests[l2].new_conversation_started)
            => requests[l1].conversation_id_state # requests[l2].conversation_id_state

-----------------------------------------------------------------------------
(* Properties of ingestion *)

\* The file names of the messages msg of out, in the order they were yielded.
FilesOf(out, msg) ==
    LET picked == SelectSeq(out, LAMBDA m : m.msg = msg)
    IN  [i \in 1..Len(picked) |-> picked[i].file]

\* The names of the files of the scan at the positions in ks, in scan order.
NamesAt(files, ks) ==
    LET RECURSIVE Walk(_)
        Walk(i) == IF i > Len(files) THEN <<>>
                   ELSE (IF i \in ks THEN <<files[i].name>> ELSE <<>>) \o Walk(i + 1)
    IN  Walk(1)

\* The positions of the scan the loop has taken, and those it is done with.
Attempted == 1..(IF ingest.pc = "polling" THEN ingest.k ELSE ingest.k - 1)
Finished  == 1..(ingest.k - 1)

\* C30: a file that fails to upload or to index does not end the batch: each
\* failure is yielded as an error message for that file, every file of the
\* scan is attempted in scan order, and the generator ends only after the
\* last one.
C30_FileFailureDoesNotAbort ==
    ingest.all_files # <<>> =>
        /\ FilesOf(ingest.out, "uploading") = NamesAt(ingest.all_files, Attempted)
        /\ FilesOf(ingest.out, "error_indexing")
                = NamesAt(ingest.all_files, Finished \ ingest.stored)
        /\ ingest.pc = "done" =>
                /\ ingest.k = Len(ingest.all_files) + 1
                /\ ingest.out[Len(ingest.out)].msg = "complete"

\* A finished batch whose first file failed and whose second was indexed.
C30_Witness ==
    /\ ingest.pc = "done"
    /\ Len(ingest.all_files) >= 2
    /\ 1 \notin ingest.stored
    /\ 2 \in ingest.stored

\* A finished batch with a file that failed while it was polled.
C30_WitnessPollRaises ==
    /\ ingest.pc = "done"
    /\ \E i \in 1..(Len(ingest.out) - 1) :
            /\ ingest.out[i].msg = "indexing"
            /\ ingest.out[i + 1].msg = "error_indexing"
    /\ ingest.stored # {}

\* C31: files are uploaded one at a time: an upload is started only when no
\* operation is in flight, and at most one operation is in flight.
C31_OneUploadInFlight ==
    [][(/\ Cardinality(ingest.inflight) <= 1
        /\ Len(FilesOf(ingest'.out, "uploading")) > Len(FilesOf(ingest.out, "uploading"))
                => ingest.inflight = {})
       /\ Cardinality(ingest'.inflight) <= 1]_vars

\* The second file is uploaded after the operation of the first one was
\* polled.
C31_Witness ==
    /\ ingest.k = 2
    /\ ingest.pc = "polling"
    /\ ingest.inflight = {2}
    /\ \E i \in 1..Len(ingest.out) : ingest.out[i].msg = "indexed"

\* C32: the final message counts the files that were indexed, not the files
\* attempted.
C32_SummaryCountsIndexedFiles ==
    (ingest.pc = "done" /\ ingest.all_files # <<>>) =>
        ingest.out[Len(ingest.out)] = Msg("complete", Cardinality(ingest.stored))

\* The final message of a batch is the count of the scan.
C32_SummaryCountsScannedFiles ==
    (ingest.pc = "done" /\ ingest.all_files # <<>>) =>
        ingest.out[Len(ingest.out)] = Msg("complete", Len(ingest.all_files))

\* C40: when the service ends every operation, a batch that was started
\* attempts every file of the scan and ends with the final message; the poll
\* loop of a file is left only by an operation that is done or by an error.
C40_IngestionTerminates ==
    /\ (ingest.pc \in {"loop", "polling"}) ~>
            (/\ ingest.pc = "done"
             /\ ingest.k = Len(ingest.all_files) + 1
             /\ Len(FilesOf(ingest.out, "uploading")) = Len(ingest.all_files)
             /\ ingest.out[Len(ingest.out)].msg = "complete")
    /\ [][(ingest.pc = "polling" /\ ingest'.pc # "polling") =>
            (/\ ingest'.out[Len(ingest'.out)].msg \in {"indexed", "error_indexing"}
             /\ ingest'.out[Len(ingest'.out)].file = ingest.all_files[ingest.k].name)]_vars

\* A finished batch of two files, one polled to the end and one that failed.
C40_Witness ==
    /\ ingest.pc = "done"
    /\ Len(ingest.all_files) >= 2
    /\ ingest.stored # {}
    /\ Cardinality(ingest.stored) < Len(ingest.all_files)
    /\ ingest.out[Len(ingest.out)].msg = "complete"

-----------------------------------------------------------------------------
(* Properties of the session and of the transcript *)

\* The turns of a conversation as a role-tagged context.
SeedOf(turns) ==
    [k \in 1..(2 * Len(turns)) |->
        IF k % 2 = 1 THEN ChatMessage("user", turns[(k + 1) \div 2].query)
        ELSE ChatMessage("model", turns[k \div 2].response)]

\* The persisted turns of the selected conversation, none when none is selected.
PriorTurns ==
    IF conversation_id_state = None THEN <<>>
    ELSE OrderByTimestamp(TurnsOf(db, conversation_id_state))

\* The context a chat object created by a turn was seeded with: what it
\* holds, less the turn it answered.
SeededWith(session, answered) ==
    SubSeq(session.history, 1, Len(session.history) - (IF answered THEN 2 ELSE 0))

\* C33: a turn that finds no live session creates one seeded with the prior
\* persisted turns of the conversation, in order, and nothing else; the new
\* query is not in the seed.
C33_SeedIsPriorTurns ==
    [][(ChatStep /\ ~chat_session.live /\ ~last'.ret.raised) =>
            SeededWith(chat_session', last'.arg.outcome = "answered") = SeedOf(PriorTurns)]_vars

\* The seed is the prior persisted turns followed by the new query.
C33_SeedIsPriorTurnsAndQuery ==
    [][(ChatStep /\ ~chat_session.live /\ ~last'.ret.raised) =>
            SeededWith(chat_session', last'.arg.outcome = "answered")
                = Append(SeedOf(PriorTurns), ChatMessage("user", last'.arg.message))]_vars

-----------------------------------------------------------------------------
(* Properties of the scan and of the extractor *)

\* The scanned files that are empty once stripped.
Blank(d) == {i \in 1..Len(d) : IsPythonFile(d[i]) /\ d[i].kind = "blank"}

\* How many messages msg the build yielded.
CountMsg(out, msg) == Cardinality({k \in 1..Len(out) : out[k].msg = msg})

\* C34: a file that is empty once stripped is reported as skipped, not as an
\* error, and the built graph is the graph of the directory without it: no
\* node, not even the file node, and no edge comes from it.
C34_EmptyFileSkipped ==
    BuildSaved =>
        \A i \in Blank(dir) :
            LET without == BuildGraph(Without(dir, i), Absent)
            IN  /\ graph_file.nodes = without.nodes
                /\ graph_file.edges = without.edges
                /\ Msg("skipping_empty", dir[i].name) \in Range(last.ret.out)
                /\ CountMsg(last.ret.out, "error_analyzing") = CountMsg(without.out, "error_analyzing")
                /\ CountMsg(last.ret.out, "skipping_empty")
                        = CountMsg(without.out, "skipping_empty") + 1

\* A saved graph of a directory with an empty file a.py and no other file
\* of that name, next to a file that was analyzed.
C34_Witness ==
    /\ BuildSaved
    /\ \E i \in Blank(dir) :
            /\ \A k \in 1..Len(dir) : (k # i /\ IsPythonFile(dir[k])) => dir[k].name # dir[i].name
            /\ \A k \in 1..Len(graph_file.nodes) : graph_file.nodes[k].id # dir[i].name
    /\ graph_file.nodes # <<>>

\* The callees of the call expressions of body whose callee is a simple
\* name, at any depth, in source order.
RECURSIVE SimpleNameCallees(_)
SimpleNameCallees(body) ==
    IF body = <<>> THEN <<>>
    ELSE (IF Head(body).kind = "Call" /\ Head(body).name # None
          THEN <<Head(body).name>> ELSE <<>>)
         \o SimpleNameCallees(Head(body).body)
         \o SimpleNameCallees(Tail(body))

RECURSIVE CalleesOfFiles(_)
CalleesOfFiles(files) ==
    IF files = <<>> THEN <<>>
    ELSE SimpleNameCallees(Head(files).tree) \o CalleesOfFiles(Tail(files))

\* Some call of body whose callee is not a simple name holds, in its callee
\* or arguments, a call whose callee is one.
RECURSIVE HasCallUnderComputedCall(_)
HasCallUnderComputedCall(body) ==
    \E i \in 1..Len(body) :
        \/ /\ body[i].kind = "Call"
           /\ body[i].name = None
           /\ SimpleNameCallees(body[i].body) # <<>>
        \/ HasCallUnderComputedCall(body[i].body)

\* C35: the 'calls' edges of the built graph are, in source order, the
\* calls whose callee is a simple name, those nested in the callee or the
\* arguments of another call included; a call with any other callee gives no
\* edge.
C35_CallsEdgeIffSimpleName ==
    BuildSaved =>
        LET calls == SelectSeq(graph_file.edges, IsCallsEdge)
        IN  [k \in 1..Len(calls) |-> calls[k].target] = CalleesOfFiles(OkFiles(dir))

\* A saved graph of a file in which a call by name is nested in a call
\* through a computed callee.
C35_Witness ==
    /\ BuildSaved
    /\ \E i \in 1..Len(dir) :
            /\ IsPythonFile(dir[i])
            /\ dir[i].kind = "ok"
            /\ HasCallUnderComputedCall(dir[i].tree)
    /\ \E k \in 1..Len(graph_file.edges) : IsCallsEdge(graph_file.edges[k])

\* File f lies under a directory with an ignored name.
UnderIgnoredDirectory(f) == \E i \in 1..Len(f.dirs) : f.dirs[i] \in ignored_dirs

\* The positions of d a scan has to return: every file that is not under an
\* ignored directory, is not a dotfile and has no ignored name; for the graph
\* build, of those the files named *.py.
ToReturn(d, python_only) ==
    {i \in 1..Len(d) :
        /\ ~UnderIgnoredDirectory(d[i])
        /\ ~(Len(d[i].name) >= 1 /\ d[i].name[1] = ".")
        /\ ~(d[i].name \in ignored_files)
        /\ python_only =>
                /\ Len(d[i].name) >= 3
                /\ SubSeq(d[i].name, Len(d[i].name) - 2, Len(d[i].name)) = <<".", "p", "y">>}

\* C36: the scan of an ingestion returns exactly the files that are not
\* under an ignored directory, are not dotfiles and have no ignored name, in
\* walk order; the scan of a graph build returns those of them named *.py.
C36_ScanReturnsTheFiles ==
    /\ (ingest.pc # "idle" /\ ingest.out[1].msg = "scanning") =>
            /\ [k \in 1..Len(ingest.all_files) |-> ingest.all_files[k].name]
                    = NamesAt(dir, ToReturn(dir, FALSE))
            /\ Len(ingest.all_files) = Cardinality(ToReturn(dir, FALSE))
    /\ (last.op = "build" /\ last.arg.valid_path) =>
            FilesOf(last.ret.out, "analyzing") = NamesAt(dir, ToReturn(dir, TRUE))

\* An ingestion and a graph build of a directory that holds a dotfile, a
\* file with an ignored name, a file under an ignored directory, a text file
\* and a Python file in a subdirectory.
C36_Witness ==
    /\ ingest.pc = "done"
    /\ Len(ingest.all_files) >= 2
    /\ last.op = "build" /\ last.arg.valid_path
    /\ \E i \in 1..Len(dir) : UnderIgnoredDirectory(dir[i])
    /\ \E i \in 1..Len(dir) : dir[i].name[1] = "."
    /\ \E i \in 1..Len(dir) : dir[i].name \in ignored_files
    /\ \E i \in ToReturn(dir, TRUE) : dir[i].dirs # <<>>
    /\ ToReturn(dir, TRUE) # ToReturn(dir, FALSE)

\* C37: a live session exists only while a conversation id is selected.
C37_LiveSessionHasConversation ==
    chat_session.live => conversation_id_state # None

\* A live session after a turn that failed, and one after a failed delete.
C37_Witness ==
    /\ chat_session.live
    /\ last.op = "chat"
    /\ last.arg.outcome = "send_raises"

C37_WitnessFailedDelete ==
    /\ chat_session.live
    /\ last.op = "delete"
    /\ ~last.ret.success

\* The transcript a load of the selected conversation would show.
LoadedTranscript(rows, conversation_id) ==
    LET turns == IF conversation_id = None THEN <<>>
                 ELSE load_conversation_from_db(rows, conversation_id, TRUE)
    IN  [k \in 1..(2 * Len(turns)) |->
            IF k % 2 = 1 THEN ChatMessage("user", turns[(k + 1) \div 2][1])
            ELSE ChatMessage("assistant", turns[k \div 2][2])]

\* C38: after a turn, the transcript chat_wrapper displays is the transcript
\* a load of the conversation from the store yields.
C38_LiveTranscriptIsPersistedTranscript ==
    (last.op = "chat" /\ ~last.ret.raised) =>
        history = LoadedTranscript(db, conversation_id_state)

\* The same for one turn that was answered and saved, in a conversation
\* whose transcript was the persisted one before the turn.
C38_SavedTurnKeepsRoundTrip ==
    [][(/\ ChatStep
        /\ ~last'.ret.raised
        /\ Len(db') = Len(db) + 1
        /\ conversation_id_state' \notin Conversations(db) \ {conversation_id_state}
        /\ history = LoadedTranscript(db, conversation_id_state))
            => history' = LoadedTranscript(db', conversation_id_state')]_vars

\* The same again for turns sent without the criticality instruction.
C38_SavedPlainTurnKeepsRoundTrip ==
    [][(/\ ChatStep
        /\ ~last'.ret.raised
        /\ Len(db') = Len(db) + 1
        /\ last'.arg.final_message = last'.arg.message
        /\ conversation_id_state' \notin Conversations(db) \ {conversation_id_state}
        /\ history = LoadedTranscript(db, conversation_id_state))
            => history' = LoadedTranscript(db', conversation_id_state')]_vars

-----------------------------------------------------------------------------
(* Properties of the rendered diagram *)

\* The lines of the diagram of the given sort.
LinesOf(lines, sort) == SelectSeq(lines, LAMBDA l : l.line = sort)

\* C39: in a rendered diagram, nodes with distinct identifiers are declared
\* under distinct diagram identifiers, every selected edge is rendered, in
\* order, and each edge line joins the diagram identifiers under which its
\* own source and its own target, and no other node, are declared.
C39_DiagramIdsDistinct ==
    VizDiagram =>
        LET nodes == LinesOf(last.ret.lines, "node")
            edges == LinesOf(last.ret.lines, "edge")
            DeclaredAs(id) == {n \in last.ret.subgraph_nodes :
                                    \E k \in 1..Len(nodes) : nodes[k].id = id /\ nodes[k].label = n}
        IN  /\ \A i, j \in 1..Len(nodes) :
                    nodes[i].label # nodes[j].label => nodes[i].id # nodes[j].id
            /\ Len(edges) = Len(last.ret.subgraph_edges)
            /\ \A k \in 1..Len(edges) :
                    /\ DeclaredAs(edges[k].id) = {last.ret.subgraph_edges[k].source}
                    /\ DeclaredAs(edges[k].label) = {last.ret.subgraph_edges[k].target}

\* What does hold: every node of the subgraph is declared, every selected
\* edge is rendered in order, and each edge line names identifiers under
\* which its source and its target are declared.
C39_DiagramEdgesRendered ==
    VizDiagram =>
        LET nodes == LinesOf(last.ret.lines, "node")
            edges == LinesOf(last.ret.lines, "edge")
        IN  /\ {nodes[k].label : k \in 1..Len(nodes)} = last.ret.subgraph_nodes
            /\ Len(edges) = Len(last.ret.subgraph_edges)
            /\ \A k \in 1..Len(edges) :
                    /\ \E i \in 1..Len(nodes) :
                            /\ nodes[i].id = edges[k].id
                            /\ nodes[i].label = last.ret.subgraph_edges[k].source
                    /\ \E i \in 1..Len(nodes) :
                            /\ nodes[i].id = edges[k].label
                            /\ nodes[i].label = last.ret.subgraph_edges[k].target

====
